---- MODULE Spec2Model ----
(***************************************************************************)
(* A model of the Dirac-Hartree-Fock NMR shielding code of                 *)
(* src/future/nmr/dhf.py: the induced-potential step NMR._vind and its     *)
(* direct_scf toggle, the first-order operator builders make_h10*, the     *)
(* shielding assembler dia / para, and NMR.shielding with its CPHF solve;   *)
(* and of the logging functions of src/lib/logger.py.                      *)
(***************************************************************************)
EXTENDS Integers, Sequences, FiniteSets, TLC

(***************************************************************************)
(* Bounds of the model.                                                    *)
(***************************************************************************)
\* worker threads that may run NMR._vind on one SCF object
MaxThreads == 2
\* invocations of NMR._vind each thread makes
MaxInvocations == 2
\* largest first-order coefficient handed to NMR._vind
MaxMo1 == 2
\* largest occupation number of the orbital
MaxOcc == 1

Threads == 1..MaxThreads

VARIABLES
    \* ---- NMR._vind and the SCF collaborator --------------------------
    direct_scf,   \* self._scf.direct_scf
    nthreads,     \* how many threads share the SCF object
    pc,           \* pc[t]: the position of thread t inside NMR._vind
    bak,          \* bak[t]: the local direct_scf_bak
    dm1,          \* dm1[t]: the local dm1 handed to get_veff
    orig,         \* orig[t]: direct_scf when thread t entered _vind
    base,         \* direct_scf when the first of the running calls entered
    ncalls,       \* ncalls[t]: get_veff calls of the current invocation
    hermi,        \* hermi[t]: the hermi argument of the last get_veff call
    ninv          \* ninv[t]: invocations thread t has started

vindVars == <<direct_scf, nthreads, pc, bak, dm1, orig, base, ncalls, hermi, ninv>>

VARIABLES
    \* ---- the geometry context mol and the last library call ----------
    mol_common_origin,  \* the origin mol.set_common_origin_ last set
    mol_rinv_origin,    \* the origin mol.set_rinv_origin_ last set
    op,                 \* the last call: its function and arguments
    ret,                \* what that call returned or raised
    trace,              \* the calls it made on its collaborators, in order
    chk                 \* the (key, value) stores it made on the checkpoint

molVars == <<mol_common_origin, mol_rinv_origin, op, ret, trace, chk>>

VARIABLES
    \* ---- NMR.shielding and the CPHF solve ------------------------------
    sh_pc,        \* the position inside NMR.shielding
    sh_mo1,       \* its argument mo1: <<>> for None, <<id>> for a response
    sh_nuc,       \* self.shielding_nuc
    sh_gauge,     \* self.gauge_orig
    sh_mb,        \* self.mb
    msc_dia,      \* the local msc_dia of NMR.shielding
    sh_ret,       \* the value NMR.shielding returned
    cphf_state,   \* the state of the CPHF solve
    cphf_iter,    \* the iterations the solve has made
    max_cycle,    \* the iteration budget of the solve
    warned,       \* the solve has reported a convergence failure
    self_mo10,    \* self.mo10 and self.mo_e10: <<>> unset, else <<id>>
    nsolve,       \* the calls of self.solve_mo1 NMR.shielding has made
    ncall,        \* the calls of NMR.shielding and NMR.para_ so far
    sh_entry      \* the method the current call entered: shielding or para_

cphfVars == <<sh_pc, sh_mo1, sh_nuc, sh_gauge, sh_mb, msc_dia, sh_ret,
              cphf_state, cphf_iter, max_cycle, warned, self_mo10, nsolve, ncall,
              sh_entry>>

VARIABLES
    \* ---- the Logger objects of lib/logger.py and the last logging call ---
    lg_verbose,   \* lg_verbose[rec]: rec.verbose
    lg_stdout,    \* lg_stdout[rec]: rec.stdout, the stream of the logger
    lg_call,      \* the last logging call: its function, logger and message
    lg_written,   \* lg_written[s]: the lines that call wrote to stream s
    lg_stderr,    \* the lines that call wrote to sys.stderr
    TIMER_LEVEL   \* the module's TIMER_LEVEL

logVars == <<lg_verbose, lg_stdout, lg_call, lg_written, lg_stderr, TIMER_LEVEL>>

vars == <<vindVars, molVars, cphfVars, logVars>>

(***************************************************************************)
(* make_rdm1_1 (dhf.py 79-86) for one real orbital: mocc = mo0*occ over    *)
(* the occupied orbitals, tmp = mo0 . mo1occ . mocc^H, dm1 = tmp + tmp^H.  *)
(* On real scalars the conjugate transpose is the identity.                *)
(***************************************************************************)
make_rdm1_1(mo1occ, mo0, occ) ==
    LET mocc == IF occ > 0 THEN mo0 * occ ELSE 0
        tmp  == mo0 * mo1occ * mocc
    IN  tmp + tmp

\* the value line 319 writes to self._scf.direct_scf
\* a write of line 319 that would leave the flag set
DisabledFlag_left_enabled == TRUE
DisabledFlag == FALSE

\* the hermi argument line 321 passes to get_veff
VindHermi == 1

Running(t) == pc[t] \notin {"idle", "returned", "raised"}

(***************************************************************************)
(* NMR._vind, one action per statement (dhf.py 314-323).                   *)
(***************************************************************************)
\* entry and line 318: dm1 = self.make_rdm1_1(mo1, mo_coeff, mo_occ)
VindEnter(t) ==
    /\ t <= nthreads
    /\ pc[t] \in {"idle", "returned", "raised"}
    /\ ninv[t] < MaxInvocations
    /\ \E mo1 \in 0..MaxMo1, occ \in 0..MaxOcc :
          dm1' = [dm1 EXCEPT ![t] = make_rdm1_1(mo1, 1, occ)]
    /\ orig' = [orig EXCEPT ![t] = direct_scf]
    /\ base' = IF \E u \in Threads : Running(u) THEN base ELSE direct_scf
    /\ ncalls' = [ncalls EXCEPT ![t] = 0]
    /\ ninv' = [ninv EXCEPT ![t] = @ + 1]
    /\ pc' = [pc EXCEPT ![t] = "save"]
    /\ UNCHANGED <<molVars, cphfVars, logVars, direct_scf, nthreads, bak, hermi>>

\* line 319, right-hand side: the tuple (self._scf.direct_scf, False) is read
VindSave(t) ==
    /\ pc[t] = "save"
    /\ bak' = [bak EXCEPT ![t] = direct_scf]
    /\ pc' = [pc EXCEPT ![t] = "disable"]
    /\ UNCHANGED <<molVars, cphfVars, logVars, direct_scf, nthreads, dm1, orig, base, ncalls, hermi, ninv>>

\* line 319, left-hand side: self._scf.direct_scf = False
VindDisable(t) ==
    /\ pc[t] = "disable"
    /\ direct_scf' = DisabledFlag
    /\ pc' = [pc EXCEPT ![t] = "call"]
    /\ UNCHANGED <<molVars, cphfVars, logVars, nthreads, bak, dm1, orig, base, ncalls, hermi, ninv>>

\* line 321: self._scf.get_veff(self.mol, dm1, hermi=1) is entered
VindCallVeff(t) ==
    /\ pc[t] = "call"
    /\ ncalls' = [ncalls EXCEPT ![t] = @ + 1]
    /\ hermi' = [hermi EXCEPT ![t] = VindHermi]
    /\ pc' = [pc EXCEPT ![t] = "in_veff"]
    /\ UNCHANGED <<molVars, cphfVars, logVars, direct_scf, nthreads, bak, dm1, orig, base, ninv>>

\* line 321: get_veff returns v_ao
VindVeffReturn(t) ==
    /\ pc[t] = "in_veff"
    /\ pc' = [pc EXCEPT ![t] = "restore"]
    /\ UNCHANGED <<molVars, cphfVars, logVars, direct_scf, nthreads, bak, dm1, orig, base, ncalls, hermi, ninv>>

\* line 321: get_veff raises; no handler in _vind, the exception leaves it
VindVeffRaise(t) ==
    /\ pc[t] = "in_veff"
    /\ pc' = [pc EXCEPT ![t] = "raised"]
    /\ UNCHANGED <<molVars, cphfVars, logVars, direct_scf, nthreads, bak, dm1, orig, base, ncalls, hermi, ninv>>

\* line 322: self._scf.direct_scf = direct_scf_bak
VindRestore(t) ==
    /\ pc[t] = "restore"
    /\ direct_scf' = bak[t]
    /\ pc' = [pc EXCEPT ![t] = "ao2mo"]
    /\ UNCHANGED <<molVars, cphfVars, logVars, nthreads, bak, dm1, orig, base, ncalls, hermi, ninv>>

\* line 323: return hf._mat_ao2mo(v_ao, mo_coeff, mo_occ)
VindReturn(t) ==
    /\ pc[t] = "ao2mo"
    /\ pc' = [pc EXCEPT ![t] = "returned"]
    /\ UNCHANGED <<molVars, cphfVars, logVars, direct_scf, nthreads, bak, dm1, orig, base, ncalls, hermi, ninv>>

\* line 323: hf._mat_ao2mo raises
VindAo2moRaise(t) ==
    /\ pc[t] = "ao2mo"
    /\ pc' = [pc EXCEPT ![t] = "raised"]
    /\ UNCHANGED <<molVars, cphfVars, logVars, direct_scf, nthreads, bak, dm1, orig, base, ncalls, hermi, ninv>>

VindStep(t) ==
    \/ VindEnter(t)
    \/ VindSave(t)
    \/ VindDisable(t)
    \/ VindCallVeff(t)
    \/ VindVeffReturn(t)
    \/ VindVeffRaise(t)
    \/ VindRestore(t)
    \/ VindReturn(t)
    \/ VindAo2moRaise(t)

(***************************************************************************)
(* The geometry context and the first-order operator builders.             *)
(*                                                                         *)
(* Coordinates are natural numbers, gauge_orig is <<>> for None and <<x>>  *)
(* for the origin x.  A matrix of the perturbation operator set is kept    *)
(* by quadrant (LL, LS, SL, SS) as the set of the terms the code adds to   *)
(* that quadrant; the three Cartesian directions are built by the same     *)
(* statements and share the record.  A call's outcome is a record          *)
(* [st, err, val, ev, origin]: st is "ok" or "raise", err names the        *)
(* exception and the statement that raised it, ev lists the calls made on  *)
(* the collaborators, origin is the common origin the call leaves on mol.  *)
(***************************************************************************)
\* mol.nao_2c(): two-component spinor functions of the basis
mol_nao_2c == 2
\* largest coordinate a gauge origin takes
MaxOrigin == 1

None == <<>>
GaugeOrigins == {None} \cup {<<x>> : x \in 0..MaxOrigin}
Balances == {"RMB", "RKB"}
\* dm0.shape[0]: the basis size 2*nao_2c, or a density of another basis
DmDims == {2 * mol_nao_2c, 2 * mol_nao_2c + 2}
Quadrants == {"LL", "LS", "SL", "SS"}

\* the calls a function makes on its collaborators
Intor(name) == [kind |-> "intor", name |-> name]
Contract(name) == [kind |-> "contract", name |-> name]
LogCall(name) == [kind |-> "log", name |-> name]
OriginCall(name) == [kind |-> "origin", name |-> name]
ChkDump(key) == [kind |-> "chkfile.dump", name |-> key]
\* an assignment into an array that exists already (x[...] = , x += )
Write(name) == [kind |-> "write", name |-> name]

Zeros == [q \in Quadrants |-> {}]
MatAdd(a, b) == [q \in Quadrants |-> a[q] \cup b[q]]
\* a term added to every element of the matrix
Whole(term) == [q \in Quadrants |-> {term}]

Ok(val, ev, origin) ==
    [st |-> "ok", err |-> "", val |-> val, ev |-> ev, origin |-> origin]
Raise(err, ev, origin) ==
    [st |-> "raise", err |-> err, val |-> Zeros, ev |-> ev, origin |-> origin]

\* numpy's rule for target[...] = src and target[...] += src on 2-d blocks
Broadcastable(tr, tc, sr, sc) == (sr = tr \/ sr = 1) /\ (sc = tc \/ sc = 1)

\* mol.set_common_origin_(gauge_orig) when gauge_orig is not None
SetCommonOrigin(gauge_orig, origin) ==
    IF gauge_orig # None THEN gauge_orig ELSE origin
SetCommonOriginEv(gauge_orig) ==
    IF gauge_orig # None THEN <<OriginCall("set_common_origin_")>> ELSE <<>>

\* `if with_gaunt: sys.stderr('NMR gaunt part not implemented')`: sys.stderr
\* is a file object, calling it raises TypeError
GauntError == "TypeError: sys.stderr is not callable (gaunt)"
\* a builder that would skip the Gaunt term without a word
GauntRaises_silent(with_gaunt) == FALSE
GauntRaises(with_gaunt) == with_gaunt

(***************************************************************************)
(* _call_rmb_vhf1 (dhf.py 325-355).  The density blocks are cut from dm,   *)
(* the oracle is called for the small-small block and its answer, of the   *)
(* basis' shape, assigned into vj[:,n2c:,n2c:]; then the second call and   *)
(* the final vj + vj^H, vk + vk^H.  rejects: whether the oracle itself     *)
(* raises on a density block that is not of the basis' shape.              *)
(***************************************************************************)
_call_rmb_vhf1(n4c, key, rejects) ==
    LET n2c == n4c \div 2
        e1  == <<Contract("cint2e_" \o key \o "_sa10sp1spsp2")>>
        e2  == e1 \o <<Contract("cint2e_" \o key \o "_sa10sp1")>>
    IN  IF n2c # mol_nao_2c /\ rejects
        THEN Raise("oracle: density shape", e1, None)
        ELSE IF ~Broadcastable(n2c, n2c, mol_nao_2c, mol_nao_2c)
        THEN Raise("ValueError: broadcast (vhf1)", e1, None)
        ELSE Ok(Whole("vj-vk:rmb:" \o key), e2, None)

(***************************************************************************)
(* _call_giao_vhf1 (dhf.py 357-389): four oracle calls.                    *)
(***************************************************************************)
_call_giao_vhf1(n4c, rejects) ==
    LET n2c == n4c \div 2
        e1  == <<Contract("cint2e_g1")>>
        e4  == e1 \o <<Contract("cint2e_spgsp1spsp2"),
                       Contract("cint2e_g1spsp2"),
                       Contract("cint2e_spgsp1")>>
    IN  IF n2c # mol_nao_2c /\ rejects
        THEN Raise("oracle: density shape", e1, None)
        ELSE IF ~Broadcastable(n2c, n2c, mol_nao_2c, mol_nao_2c)
        THEN Raise("ValueError: broadcast (vhf1)", e1, None)
        ELSE Ok(Whole("vj-vk:giao"), e4, None)

(***************************************************************************)
(* make_h10giao (dhf.py 88-115).  A matrix is the set of the terms added   *)
(* to each quadrant.  The terms of make_h10giao are results of the         *)
(* oracle: when all of them are zero matrices, as the GIAO integrals of    *)
(* basis functions on one centre are, the h1 it returns is the zero        *)
(* matrix and adding it changes no value.                                  *)
(***************************************************************************)
\* whether every GIAO integral the oracle returns is zero
OracleGiaoVanishes == BOOLEAN

make_h10giao(n4c, with_gaunt, rejects, origin, vanish) ==
    LET ev0 == <<LogCall("debug"), Intor("cint1e_spgsp"), Intor("cint1e_gnuc"),
                 Intor("cint1e_spgnucsp")>>
        v   == _call_giao_vhf1(n4c, rejects)
        ev1 == ev0 \o v.ev
        h1  == [LL |-> v.val.LL \cup {"vg"},
                LS |-> v.val.LS \cup {"tg^H*.5"},
                SL |-> v.val.SL \cup {"tg*.5"},
                SS |-> v.val.SS \cup {"wg*(.25/c**2)", "-tg*.5"}]
    IN  IF v.st = "raise" THEN Raise(v.err, ev1, origin)
        ELSE IF GauntRaises(with_gaunt) THEN Raise(GauntError, ev1, origin)
        ELSE Ok(IF vanish THEN Zeros ELSE h1, ev1, origin)

(***************************************************************************)
(* make_h10rkb (dhf.py 117-138).                                           *)
(***************************************************************************)
make_h10rkb(n4c, gauge_orig, with_gaunt, origin) ==
    LET n2c == n4c \div 2
        o1  == SetCommonOrigin(gauge_orig, origin)
        t1  == IF gauge_orig = None THEN "cint1e_giao_sa10sp"
                                    ELSE "cint1e_cg_sa10sp"
        ev  == SetCommonOriginEv(gauge_orig) \o <<LogCall("debug"), Intor(t1)>>
        h1  == [LL |-> {}, LS |-> {".5*t1:" \o t1},
                SL |-> {".5*t1^H:" \o t1}, SS |-> {}]
    IN  IF GauntRaises(with_gaunt) THEN Raise(GauntError, ev, o1)
        ELSE IF ~Broadcastable(n2c, n4c - n2c, mol_nao_2c, mol_nao_2c)
        THEN Raise("ValueError: broadcast (h1)", ev, o1)
        ELSE Ok(h1, ev, o1)

(***************************************************************************)
(* make_h10rmb (dhf.py 141-184).                                           *)
(***************************************************************************)
make_h10rmb(n4c, gauge_orig, with_gaunt, rejects, origin) ==
    LET n2c == n4c \div 2
        o1  == SetCommonOrigin(gauge_orig, origin)
        key == IF gauge_orig = None THEN "giao" ELSE "cg"
        t1  == "cint1e_" \o key \o "_sa10sp"
        v1  == "cint1e_" \o key \o "_sa10nucsp"
        ev0 == SetCommonOriginEv(gauge_orig)
                 \o <<LogCall("debug"), Intor(t1), Intor(v1)>>
        v   == _call_rmb_vhf1(n4c, key, rejects)
        ev1 == ev0 \o v.ev
        h1  == [LL |-> v.val.LL,
                LS |-> v.val.LS \cup {"t1cc*.5:" \o t1},
                SL |-> v.val.SL \cup {"t1cc*.5:" \o t1},
                SS |-> v.val.SS \cup {"-t1cc*.5:" \o t1,
                                      "v1cc*(.25/c**2):" \o v1}]
    IN  IF v.st = "raise" THEN Raise(v.err, ev1, o1)
        ELSE IF GauntRaises(with_gaunt) THEN Raise(GauntError, ev1, o1)
        ELSE IF ~Broadcastable(n2c, n4c - n2c, mol_nao_2c, mol_nao_2c)
        THEN Raise("ValueError: broadcast (h1)", ev1, o1)
        ELSE Ok(h1, ev1, o1)

\* make_h10 with the GIAO term added whatever the gauge origin is
make_h10_giao_always(n4c, gauge_orig, mb, with_gaunt, rejects, origin, vanish) ==
    LET a == IF mb = "RMB"
             THEN make_h10rmb(n4c, gauge_orig, with_gaunt, rejects, origin)
             ELSE make_h10rkb(n4c, gauge_orig, with_gaunt, origin)
        g == make_h10giao(n4c, with_gaunt, rejects, a.origin, vanish)
    IN  IF a.st = "raise" THEN a
        ELSE IF g.st = "raise" THEN Raise(g.err, a.ev \o g.ev, g.origin)
        ELSE Ok(MatAdd(a.val, g.val), a.ev \o g.ev, g.origin)

(***************************************************************************)
(* make_h10 (dhf.py 186-194).                                              *)
(***************************************************************************)
make_h10(n4c, gauge_orig, mb, with_gaunt, rejects, origin, vanish) ==
    LET a == IF mb = "RMB"
             THEN make_h10rmb(n4c, gauge_orig, with_gaunt, rejects, origin)
             ELSE make_h10rkb(n4c, gauge_orig, with_gaunt, origin)
        g == make_h10giao(n4c, with_gaunt, rejects, a.origin, vanish)
    IN  IF a.st = "raise" THEN a
        ELSE IF gauge_orig # None THEN a
        ELSE IF g.st = "raise" THEN Raise(g.err, a.ev \o g.ev, g.origin)
        ELSE Ok(MatAdd(a.val, g.val), a.ev \o g.ev, g.origin)

\* an NMR.make_h10 whose store under 'nmr/h1' holds the array h1 itself, so
\* that it shows the GIAO term added in place afterwards
NMR_make_h10_aliased(n4c, gauge_orig, mb, with_gaunt, rejects, origin, vanish) ==
    LET a == IF mb = "RMB"
             THEN make_h10rmb(n4c, gauge_orig, with_gaunt, rejects, origin)
             ELSE make_h10rkb(n4c, gauge_orig, with_gaunt, origin)
        ev1 == a.ev \o <<LogCall("timer"), ChkDump("nmr/h1")>>
        g   == make_h10giao(n4c, with_gaunt, rejects, a.origin, vanish)
        h1  == IF gauge_orig = None THEN MatAdd(a.val, g.val) ELSE a.val
        ev2 == IF gauge_orig = None THEN ev1 \o g.ev ELSE ev1
        ev3 == ev2 \o <<LogCall("timer"), ChkDump("nmr/h1giao")>>
        s2  == <<[key |-> "nmr/h1", val |-> h1],
                 [key |-> "nmr/h1giao", val |-> h1]>>
    IN  IF a.st = "raise" THEN [out |-> a, stores |-> <<>>]
        ELSE IF gauge_orig = None /\ g.st = "raise"
        THEN [out |-> Raise(g.err, ev2, g.origin),
              stores |-> <<[key |-> "nmr/h1", val |-> a.val]>>]
        ELSE [out |-> Ok(h1, ev3, a.origin), stores |-> s2]

(***************************************************************************)
(* NMR.make_h10 (dhf.py 287-307): the builder of self.mb, the store of     *)
(* 'nmr/h1', the in-place addition of the GIAO term, the store of          *)
(* 'nmr/h1giao'.  The outcome carries the stores made, each the value of   *)
(* h1 at the time of its chkfile.dump.                                     *)
(***************************************************************************)
NMR_make_h10(n4c, gauge_orig, mb, with_gaunt, rejects, origin, vanish) ==
    LET a == IF mb = "RMB"
             THEN make_h10rmb(n4c, gauge_orig, with_gaunt, rejects, origin)
             ELSE make_h10rkb(n4c, gauge_orig, with_gaunt, origin)
        ev1 == a.ev \o <<LogCall("timer"), ChkDump("nmr/h1")>>
        s1  == <<[key |-> "nmr/h1", val |-> a.val]>>
        g   == make_h10giao(n4c, with_gaunt, rejects, a.origin, vanish)
        h1  == IF gauge_orig = None THEN MatAdd(a.val, g.val) ELSE a.val
        ev2 == IF gauge_orig = None THEN ev1 \o g.ev ELSE ev1
        ev3 == ev2 \o <<LogCall("timer"), ChkDump("nmr/h1giao")>>
        s2  == s1 \o <<[key |-> "nmr/h1giao", val |-> h1]>>
    IN  IF a.st = "raise" THEN [out |-> a, stores |-> <<>>]
        ELSE IF gauge_orig = None /\ g.st = "raise"
        THEN [out |-> Raise(g.err, ev2, g.origin), stores |-> s1]
        ELSE [out |-> Ok(h1, ev3, a.origin), stores |-> s2]

(***************************************************************************)
(* make_s10 (dhf.py 196-217).                                              *)
(***************************************************************************)
make_s10(gauge_orig, mb, origin) ==
    LET o1  == SetCommonOrigin(gauge_orig, origin)
        t1  == IF gauge_orig = None THEN "cint1e_giao_sa10sp"
                                    ELSE "cint1e_cg_sa10sp"
        ev1 == SetCommonOriginEv(gauge_orig)
                 \o (IF mb = "RMB" THEN <<Intor(t1), Write("s1")>> ELSE <<>>)
        ev2 == IF gauge_orig = None
               THEN <<Intor("cint1e_govlp"), Intor("cint1e_spgsp"),
                      Write("s1"), Write("s1")>>
               ELSE <<>>
        a   == [LL |-> {}, LS |-> {}, SL |-> {},
                SS |-> IF mb = "RMB" THEN {"t1cc*(.25/c**2):" \o t1} ELSE {}]
        g   == IF gauge_orig = None
               THEN [LL |-> {"sg"}, LS |-> {}, SL |-> {},
                     SS |-> {"tg*(.25/c**2)"}]
               ELSE Zeros
    IN  Ok(MatAdd(a, g), ev1 \o ev2, o1)

(***************************************************************************)
(* The calls, one action each.                                             *)
(***************************************************************************)
CallMakeH10 ==
    \E n4c \in DmDims, g \in GaugeOrigins, mb \in Balances,
       gaunt \in BOOLEAN, rejects \in BOOLEAN, vanish \in OracleGiaoVanishes :
       LET r == make_h10(n4c, g, mb, gaunt, rejects, mol_common_origin,
                         vanish)
       IN  /\ op.fn = "none"
           /\ op' = [fn |-> "make_h10", n4c |-> n4c, gauge_orig |-> g,
                     mb |-> mb, with_gaunt |-> gaunt, rejects |-> rejects,
                     giao_vanish |-> vanish,
                     common0 |-> mol_common_origin, rinv0 |-> mol_rinv_origin]
           /\ ret' = [st |-> r.st, err |-> r.err, val |-> r.val]
           /\ trace' = r.ev
           /\ chk' = <<>>
           /\ mol_common_origin' = r.origin
           /\ UNCHANGED <<mol_rinv_origin, vindVars, cphfVars, logVars>>

CallNMRMakeH10 ==
    \E n4c \in DmDims, g \in GaugeOrigins, mb \in Balances,
       gaunt \in BOOLEAN, rejects \in BOOLEAN, vanish \in OracleGiaoVanishes :
       LET r == NMR_make_h10(n4c, g, mb, gaunt, rejects, mol_common_origin,
                         vanish)
       IN  /\ op.fn = "none"
           /\ op' = [fn |-> "NMR.make_h10", n4c |-> n4c, gauge_orig |-> g,
                     mb |-> mb, with_gaunt |-> gaunt, rejects |-> rejects,
                     giao_vanish |-> vanish,
                     common0 |-> mol_common_origin, rinv0 |-> mol_rinv_origin]
           /\ ret' = [st |-> r.out.st, err |-> r.out.err, val |-> r.out.val]
           /\ trace' = r.out.ev
           /\ chk' = r.stores
           /\ mol_common_origin' = r.out.origin
           /\ UNCHANGED <<mol_rinv_origin, vindVars, cphfVars, logVars>>


CallMakeS10 ==
    \E g \in GaugeOrigins, mb \in Balances :
       LET r == make_s10(g, mb, mol_common_origin)
       IN  /\ op.fn = "none"
           /\ op' = [fn |-> "make_s10", gauge_orig |-> g, mb |-> mb,
                     common0 |-> mol_common_origin, rinv0 |-> mol_rinv_origin]
           /\ ret' = [st |-> r.st, err |-> r.err, val |-> r.val]
           /\ trace' = r.ev
           /\ chk' = <<>>
           /\ mol_common_origin' = r.origin
           /\ UNCHANGED <<mol_rinv_origin, vindVars, cphfVars, logVars>>
(***************************************************************************)
(* Complex numbers <<re, im>> over the integers, and matrices as sequences *)
(* of rows, rows and columns counted from 1.  The oracle's integrals are   *)
(* even, so that the halves the assembler takes are exact.                 *)
(***************************************************************************)
CZero == <<0, 0>>
CAdd(a, b) == <<a[1] + b[1], a[2] + b[2]>>
CMul(a, b) == <<a[1] * b[1] - a[2] * b[2], a[1] * b[2] + a[2] * b[1]>>
CConj(a) == <<a[1], 0 - a[2]>>
CHalf(a) == <<a[1] \div 2, a[2] \div 2>>
CReal(a) == a[1]
CImag(a) == a[2]

\* the n values E(1) .. E(n) as a sequence, and the n x m values E(r, c) as
\* the sequence of the rows of a matrix; a[r][c] is the element of row r and
\* column c
Vec(n, E(_)) == [i \in 1..n |-> E(i)] \o <<>>
Mat(n, m, E(_, _)) == Vec(n, LAMBDA r : Vec(m, LAMBDA c : E(r, c)))

RECURSIVE CSum(_, _)
\* f[1] + ... + f[n]
CSum(f, n) == IF n = 0 THEN CZero ELSE CAdd(CSum(f, n - 1), f[n])

RECURSIVE ISum(_, _)
ISum(f, n) == IF n = 0 THEN 0 ELSE ISum(f, n - 1) + f[n]

(***************************************************************************)
(* The geometry context: natm atoms, atom k (from 0) at coordinate k + 1.  *)
(* Mole.atom_coord indexes the atom table with the Python index it is      *)
(* given: -natm .. -1 count from the end, anything else outside            *)
(* 0 .. natm-1 raises IndexError.                                          *)
(***************************************************************************)
mol_natm == 2

IndexInRange(idx) == 0 - mol_natm <= idx /\ idx < mol_natm
atom_coord(idx) == <<((idx + mol_natm) % mol_natm) + 1>>

(***************************************************************************)
(* The integral oracle mol.intor(name, comp): comp matrices of nao_2c x    *)
(* nao_2c elements, a function of the operator, the component and the      *)
(* origins the operator refers to: the common origin for the cg (fixed     *)
(* gauge origin) operators, the rinv origin for the operators with sa01.   *)
(***************************************************************************)
UsesCommonOrigin(name) ==
    name \in {"cint1e_cg_sa10sa01", "cint1e_cg_sa10sp", "cint1e_cg_sa10nucsp"}
UsesRinvOrigin(name) ==
    name \in {"cint1e_giao_sa10sa01", "cint1e_cg_sa10sa01", "cint1e_spgsa01",
              "cint1e_sa01sp"}
OperatorCode(name) ==
    CASE name = "cint1e_giao_sa10sa01" -> 1
      [] name = "cint1e_cg_sa10sa01"   -> 2
      [] name = "cint1e_spgsa01"       -> 3
      [] name = "cint1e_sa01sp"        -> 4
      [] OTHER                         -> 5

intor(name, i, common, rinv) ==
    LET o == (IF UsesCommonOrigin(name) THEN common[1] ELSE 0)
             + (IF UsesRinvOrigin(name) THEN 3 * rinv[1] ELSE 0)
    IN  Mat(mol_nao_2c, mol_nao_2c, LAMBDA r, c :
            <<2 * (OperatorCode(name) + i + r + 2 * c + o),
              2 * (r - c + i + o)>>)

MAdd(a, b, n) == Mat(n, n, LAMBDA r, c : CAdd(a[r][c], b[r][c]))
MZero(n) == Mat(n, n, LAMBDA r, c : CZero)

(***************************************************************************)
(* dia (dhf.py 22-51).                                                     *)
(***************************************************************************)
\* a dia that would take the common-origin integrals whatever gauge_orig is
dia_t11_cg(mb, gauge_orig, i, common, rinv) ==
    intor("cint1e_cg_sa10sa01", i, common, rinv)
\* lines 33-42: the second-derivative integrals of component i
dia_t11(mb, gauge_orig, i, common, rinv) ==
    IF mb = "RMB"
    THEN IF gauge_orig = None
         THEN MAdd(intor("cint1e_giao_sa10sa01", i, common, rinv),
                   intor("cint1e_spgsa01", i, common, rinv), mol_nao_2c)
         ELSE intor("cint1e_cg_sa10sa01", i, common, rinv)
    ELSE IF gauge_orig = None
         THEN intor("cint1e_spgsa01", i, common, rinv)
         ELSE MZero(mol_nao_2c)

\* the oracle calls of lines 33-42 and the `t11 +=` of line 37
dia_t11_calls(mb, gauge_orig) ==
    IF mb = "RMB"
    THEN IF gauge_orig = None
         THEN <<Intor("cint1e_giao_sa10sa01"), Intor("cint1e_spgsa01"),
                Write("t11")>>
         ELSE <<Intor("cint1e_cg_sa10sa01")>>
    ELSE IF gauge_orig = None THEN <<Intor("cint1e_spgsa01")>> ELSE <<>>

\* lines 43-46: t in the small-large quadrant, its conjugate transpose in
\* the large-small one, both halved
OffDiagonal(t, n2c) ==
    Mat(2 * n2c, 2 * n2c, LAMBDA r, c :
        IF r > n2c /\ c <= n2c THEN CHalf(t[r - n2c][c])
        ELSE IF r <= n2c /\ c > n2c THEN CHalf(CConj(t[c - n2c][r]))
        ELSE CZero)

\* numpy.einsum('ij,ji', a, x) on n x n matrices
Einsum_ij_ji(a, x, n) ==
    CSum(Vec(n, LAMBDA i : CSum(Vec(n, LAMBDA j : CMul(a[i][j], x[j][i])), n)), n)

\* line 47, before numpy.real: the nine complex traces of one nucleus
dia_trace(dm0, n4c, mb, gauge_orig, common, rinv) ==
    Vec(9, LAMBDA i :
        Einsum_ij_ji(dm0, OffDiagonal(dia_t11(mb, gauge_orig, i, common, rinv),
                                      n4c \div 2), n4c))

\* line 47: numpy.real of each trace
dia_a11(dm0, n4c, mb, gauge_orig, common, rinv) ==
    LET z == dia_trace(dm0, n4c, mb, gauge_orig, common, rinv)
    IN  Vec(9, LAMBDA i : CReal(z[i]))

\* line 51: reshape(-1, 3, 3) of the rows of nine
Reshape33(a) == Mat(3, 3, LAMBDA b, m : a[3 * (b - 1) + m])

RECURSIVE dia_loop(_, _, _, _, _, _, _)
\* lines 31-50 from the k-th requested nucleus on; s: the tensors so far,
\* the calls so far, the rinv origin so far
dia_loop(dm0, n4c, mb, gauge_orig, nuc, k, s) ==
    IF k > Len(nuc)
    THEN [st |-> "ok", err |-> "", val |-> s.val, ev |-> s.ev,
          origin |-> s.origin, rinv |-> s.rinv]
    ELSE IF ~IndexInRange(nuc[k] - 1)
    THEN [st |-> "raise", err |-> "IndexError: atom_coord", val |-> <<>>,
          ev |-> s.ev, origin |-> s.origin, rinv |-> s.rinv]
    ELSE LET r == atom_coord(nuc[k] - 1)
             t == Reshape33(dia_a11(dm0, n4c, mb, gauge_orig, s.origin, r))
         IN  dia_loop(dm0, n4c, mb, gauge_orig, nuc, k + 1,
                 [val |-> Append(s.val, t),
                  ev |-> s.ev \o <<OriginCall("set_rinv_origin_")>>
                              \o dia_t11_calls(mb, gauge_orig)
                              \o <<Write("h11")>>,
                  origin |-> s.origin, rinv |-> r])

\* shielding_nuc None: range(1, mol.natm+1)
AllNuclei == Vec(mol_natm, LAMBDA k : k)
\* a shielding_nuc argument: [none |-> TRUE, ids |-> <<>>] for None, else
\* [none |-> FALSE, ids |-> the list]
\* `if not shielding_nuc`: an empty list taken for None
NucOrAll_falsy(shielding_nuc) ==
    IF shielding_nuc.none \/ shielding_nuc.ids = <<>>
    THEN AllNuclei ELSE shielding_nuc.ids
NucOrAll(shielding_nuc) ==
    IF shielding_nuc.none THEN AllNuclei ELSE shielding_nuc.ids

dia(dm0, n4c, gauge_orig, shielding_nuc, mb, common, rinv) ==
    dia_loop(dm0, n4c, mb, gauge_orig, NucOrAll(shielding_nuc), 1,
             [val |-> <<>>, ev |-> SetCommonOriginEv(gauge_orig),
              origin |-> SetCommonOrigin(gauge_orig, common), rinv |-> rinv])

(***************************************************************************)
(* hf._mat_ao2mo(mat, mo_coeff, mo_occ): mo_coeff^H . mat . mo_coeff[:,occ]*)
(* with the occupied columns in their order, for one matrix.               *)
(***************************************************************************)
RECURSIVE OccIdx(_, _)
\* the indices i <= n with mo_occ[i] > 0, ascending
OccIdx(mo_occ, n) ==
    IF n = 0 THEN <<>>
    ELSE IF mo_occ[n] > 0 THEN Append(OccIdx(mo_occ, n - 1), n)
    ELSE OccIdx(mo_occ, n - 1)

_mat_ao2mo(mat, mo_coeff, mo_occ, n) ==
    LET occ == OccIdx(mo_occ, n)
        hc  == Mat(n, Len(occ), LAMBDA r, j :
                  CSum(Vec(n, LAMBDA k : CMul(mat[r][k], mo_coeff[k][occ[j]])), n))
    IN  Mat(n, Len(occ), LAMBDA i, j :
            CSum(Vec(n, LAMBDA r : CMul(CConj(mo_coeff[r][i]), hc[r][j])), n))

(***************************************************************************)
(* para (dhf.py 53-77).                                                    *)
(***************************************************************************)
\* line 61: h01 = numpy.zeros((3, n4c, n4c), complex), once for the call
para_h01_zeros(n4c) == Vec(3, LAMBDA m : MZero(n4c))

\* lines 64-67: h01[m] after the assignments for the rinv origin, buf being
\* h01[m] before them; the large-small quadrant gets .5*t01[m], the
\* small-large one its conjugate transpose, the rest is left as it is
para_h01(buf, m, n2c, common, rinv) ==
    LET t == intor("cint1e_sa01sp", m, common, rinv)
    IN  Mat(2 * n2c, 2 * n2c, LAMBDA r, c :
            IF r <= n2c /\ c > n2c THEN CHalf(t[r][c - n2c])
            ELSE IF r > n2c /\ c <= n2c THEN CHalf(CConj(t[c][r - n2c]))
            ELSE buf[r][c])

\* line 72 before .real: numpy.einsum('ij,ij->i', mo10[b].conj(), h01_mo[m])
para_einsum(mo10b, h01_mo_m, n, nocc) ==
    Vec(n, LAMBDA i :
        CSum(Vec(nocc, LAMBDA j : CMul(CConj(mo10b[i][j]), h01_mo_m[i][j])), nocc))

\* line 72: p = (...).real * 2
para_p(mo10b, h01_mo_m, n, nocc) ==
    LET z == para_einsum(mo10b, h01_mo_m, n, nocc)
    IN  Vec(n, LAMBDA i : CReal(z[i]) * 2)

\* lines 73-75 for one nucleus: the total and the two partial sums
para_sums(h01, mo10, mo_coeff, mo_occ, n4c, common, rinv) ==
    LET n2c  == n4c \div 2
        nocc == Len(OccIdx(mo_occ, n4c))
        buf  == Vec(3, LAMBDA m : para_h01(h01[m], m, n2c, common, rinv))
        hmo  == Vec(3, LAMBDA m : _mat_ao2mo(buf[m], mo_coeff, mo_occ, n4c))
        p    == Mat(3, 3, LAMBDA b, m : para_p(mo10[b], hmo[m], n4c, nocc))
    IN  [h01 |-> buf,
         msc |-> Mat(3, 3, LAMBDA b, m : ISum(p[b][m], n4c)),
         neg |-> Mat(3, 3, LAMBDA b, m : ISum(p[b][m], n2c)),
         occ |-> Mat(3, 3, LAMBDA b, m :
                    ISum(Vec(n4c, LAMBDA i :
                            IF mo_occ[i] > 0 THEN p[b][m][i] ELSE 0), n4c))]

RECURSIVE para_loop(_, _, _, _, _, _, _)
para_loop(mo10, mo_coeff, mo_occ, n4c, nuc, k, s) ==
    IF k > Len(nuc)
    THEN [st |-> "ok", err |-> "", val |-> s.val, ev |-> s.ev,
          origin |-> s.origin, rinv |-> s.rinv]
    ELSE IF ~IndexInRange(nuc[k] - 1)
    THEN [st |-> "raise", err |-> "IndexError: atom_coord", val |-> <<>>,
          ev |-> s.ev, origin |-> s.origin, rinv |-> s.rinv]
    ELSE LET r == atom_coord(nuc[k] - 1)
             t == para_sums(s.h01, mo10, mo_coeff, mo_occ, n4c, s.origin, r)
         IN  para_loop(mo10, mo_coeff, mo_occ, n4c, nuc, k + 1,
                 [val |-> Append(s.val, t),
                  ev |-> s.ev \o <<OriginCall("set_rinv_origin_"),
                                   Intor("cint1e_sa01sp"), Write("h01")>>,
                  origin |-> s.origin, rinv |-> r, h01 |-> t.h01])

\* line 76-77: para_pos = msc_para - para_neg - para_occ, the four arrays
para_result(sums) ==
    [msc_para |-> Vec(Len(sums), LAMBDA k : sums[k].msc),
     para_pos |-> Vec(Len(sums), LAMBDA k :
                     Mat(3, 3, LAMBDA b, m :
                        sums[k].msc[b][m] - sums[k].neg[b][m] - sums[k].occ[b][m])),
     para_neg |-> Vec(Len(sums), LAMBDA k : sums[k].neg),
     para_occ |-> Vec(Len(sums), LAMBDA k : sums[k].occ)]

para(mo10, mo_coeff, mo_occ, n4c, shielding_nuc, common, rinv) ==
    LET l == para_loop(mo10, mo_coeff, mo_occ, n4c, NucOrAll(shielding_nuc), 1,
                 [val |-> <<>>, ev |-> <<>>, origin |-> common, rinv |-> rinv,
                  h01 |-> para_h01_zeros(n4c)])
    IN  IF l.st = "raise" THEN l
        ELSE [l EXCEPT !.val = para_result(l.val)]

(***************************************************************************)
(* The arguments the assembler is called with.                             *)
(***************************************************************************)
\* nuclei requested in one call
MaxNuc == 1
\* densities, orbital sets and first-order responses to choose from
DmIds == {1, 2}
MoCoeffIds == {1, 2}
Mo10Ids == {1}

\* nucleus indices: the first and the last valid one, 0 and the indices just
\* outside the range Python accepts on either side
NucIds == {0 - mol_natm, 0, 1, mol_natm, mol_natm + 1}
NucLists ==
    {[none |-> TRUE, ids |-> <<>>]}
    \cup {[none |-> FALSE, ids |-> l] :
            l \in UNION {[1..n -> NucIds] : n \in 0..MaxNuc}}

\* dm0 number 1 is Hermitian, the others are not
DM0(id, n4c) ==
    Mat(n4c, n4c, LAMBDA j, k :
        IF id = 1 THEN <<j + k, j - k>> ELSE <<id * j, k>>)

IsHermitian(a, n) ==
    \A j \in 1..n, k \in 1..n : a[j][k] = CConj(a[k][j])

\* mo_coeff number 1 is the unit matrix, the others mix the orbitals
MoCoeff(id, n4c) ==
    Mat(n4c, n4c, LAMBDA j, k :
        IF j = k THEN <<1, 0>>
        ELSE IF id > 1 /\ k = j + 1 THEN <<0, id - 1>> ELSE CZero)

\* occupation vectors: the orbitals of index <= n2c are the negative-energy
\* ones; the last vector occupies one of them
MoOccs(n4c) ==
    {Vec(n4c, LAMBDA i : IF i > n4c \div 2 THEN 1 ELSE 0),
     Vec(n4c, LAMBDA i : IF i = n4c THEN 2 ELSE 0),
     Vec(n4c, LAMBDA i : IF i = 1 \/ i = n4c THEN 1 ELSE 0)}

\* first-order responses: three matrices of n4c x nocc elements
Mo10(id, n4c, nocc) ==
    Vec(3, LAMBDA b : Mat(n4c, nocc, LAMBDA i, j : <<id * (b + i), j - b + id>>))

BasisN4c == 2 * mol_nao_2c

CallDia ==
    \E id \in DmIds, g \in GaugeOrigins, nuc \in NucLists, mb \in Balances :
       LET r == dia(DM0(id, BasisN4c), BasisN4c, g, nuc, mb,
                    mol_common_origin, mol_rinv_origin)
       IN  /\ op.fn = "none"
           /\ op' = [fn |-> "dia", dm0 |-> id, gauge_orig |-> g,
                     shielding_nuc |-> nuc, mb |-> mb,
                     common0 |-> mol_common_origin, rinv0 |-> mol_rinv_origin]
           /\ ret' = [st |-> r.st, err |-> r.err, val |-> r.val]
           /\ trace' = r.ev
           /\ chk' = <<>>
           /\ mol_common_origin' = r.origin
           /\ mol_rinv_origin' = r.rinv
           /\ UNCHANGED <<vindVars, cphfVars, logVars>>

CallPara ==
    \E id \in Mo10Ids, c \in MoCoeffIds, occ \in MoOccs(BasisN4c), nuc \in NucLists :
       LET nocc == Len(OccIdx(occ, BasisN4c))
           r == para(Mo10(id, BasisN4c, nocc), MoCoeff(c, BasisN4c), occ,
                     BasisN4c, nuc, mol_common_origin, mol_rinv_origin)
       IN  /\ op.fn = "none"
           /\ op' = [fn |-> "para", mo10 |-> id, mo_coeff |-> c, mo_occ |-> occ,
                     shielding_nuc |-> nuc,
                     common0 |-> mol_common_origin, rinv0 |-> mol_rinv_origin]
           /\ ret' = [st |-> r.st, err |-> r.err, val |-> r.val]
           /\ trace' = r.ev
           /\ chk' = <<>>
           /\ mol_common_origin' = r.origin
           /\ mol_rinv_origin' = r.rinv
           /\ UNCHANGED <<vindVars, cphfVars, logVars>>

\* the caller takes the result: nothing of the call is left but the origins
\* it set on mol
Discard ==
    /\ op.fn # "none"
    /\ op' = [fn |-> "none"]
    /\ ret' = [st |-> "none", err |-> "", val |-> <<>>]
    /\ trace' = <<>>
    /\ chk' = <<>>
    /\ UNCHANGED <<mol_common_origin, mol_rinv_origin, vindVars, cphfVars, logVars>>

(***************************************************************************)
(* The matrices of _call_rmb_vhf1 (dhf.py 325-355) and _call_giao_vhf1     *)
(* (dhf.py 357-389), for one of the three directions.  What the oracle     *)
(* _vhf.rdirect_mapdm / rdirect_bindm returns is not fixed by this code:   *)
(* vx[q] of a call is a matrix of nao_2c x nao_2c complex numbers chosen   *)
(* by the answer number ans, already scaled by the real factor c1**k of    *)
(* the call.  Answer 1 is a Hermitian matrix, the others have complex      *)
(* diagonals.                                                              *)
(***************************************************************************)
OracleAnswers == {1, 2}

IntegralCode(name) ==
    CASE name = "cint2e_giao_sa10sp1spsp2" -> 1
      [] name = "cint2e_giao_sa10sp1"      -> 2
      [] name = "cint2e_cg_sa10sp1spsp2"   -> 3
      [] name = "cint2e_cg_sa10sp1"        -> 4
      [] name = "cint2e_g1"                -> 5
      [] name = "cint2e_spgsp1spsp2"       -> 6
      [] name = "cint2e_g1spsp2"           -> 7
      [] OTHER                             -> 8

\* vx[q] of the call for the integral name
rdirect(name, q, ans) ==
    Mat(mol_nao_2c, mol_nao_2c, LAMBDA r, c :
        IF ans = 1
        THEN <<IntegralCode(name) + q + r + c, r - c>>
        ELSE <<IntegralCode(name) + q + ans * r + c, ans * r + c + q>>)

\* a.T.conj() and a + a.T.conj() on n x n matrices
ConjT(a, n) == Mat(n, n, LAMBDA r, c : CConj(a[c][r]))
PlusConjT(a, n) == MAdd(a, ConjT(a, n), n)

\* pyscf.lib.hermi_triu(mat, h): the upper triangle is filled from the
\* lower one, with its conjugate for h = 1 and with minus its conjugate
\* for h = 2; the diagonal and the lower triangle are left as they are
hermi_triu(mat, h, n) ==
    Mat(n, n, LAMBDA r, c :
        IF r < c
        THEN IF h = 1 THEN CConj(mat[c][r])
             ELSE <<0 - mat[c][r][1], mat[c][r][2]>>
        ELSE mat[r][c])

\* the n4c x n4c matrix with the four n2c x n2c blocks ll, ls, sl, ss
Blocks(ll, ls, sl, ss, n2c) ==
    Mat(2 * n2c, 2 * n2c, LAMBDA r, c :
        IF r <= n2c /\ c <= n2c THEN ll[r][c]
        ELSE IF r <= n2c THEN ls[r][c - n2c]
        ELSE IF c <= n2c THEN sl[r - n2c][c]
        ELSE ss[r - n2c][c - n2c])

\* the names of the two ways a matrix is finished
PlusConjTStep == "x + x.T.conj()"
HermiTriuStep == "hermi_triu(x, 1)"

\* _call_rmb_vhf1, lines 332-355: vj and vk of one direction
rmb_vj_vk(key, ans) ==
    LET n  == mol_nao_2c
        z  == MZero(n)
        n1 == "cint2e_" \o key \o "_sa10sp1spsp2"
        n2 == "cint2e_" \o key \o "_sa10sp1"
        a0 == hermi_triu(rdirect(n1, 0, ans), 2, n)
        b1 == hermi_triu(rdirect(n2, 1, ans), 2, n)
        vj == Blocks(b1, z, z,
                     MAdd(MAdd(a0, rdirect(n1, 1, ans), n), rdirect(n2, 0, ans), n),
                     n)
        vk == Blocks(z, rdirect(n2, 3, ans), rdirect(n2, 2, ans),
                     MAdd(rdirect(n1, 2, ans), rdirect(n1, 3, ans), n), n)
    IN  [vj |-> PlusConjT(vj, 2 * n), vk |-> PlusConjT(vk, 2 * n),
         vj_step |-> PlusConjTStep, vk_step |-> PlusConjTStep]

\* _call_giao_vhf1, lines 364-389: vj and vk of one direction
giao_vj_vk(ans) ==
    LET n  == mol_nao_2c
        z  == MZero(n)
        vj == Blocks(MAdd(rdirect("cint2e_g1", 0, ans),
                          rdirect("cint2e_g1spsp2", 0, ans), n),
                     z, z,
                     MAdd(rdirect("cint2e_spgsp1spsp2", 0, ans),
                          rdirect("cint2e_spgsp1", 0, ans), n), n)
        vk == Blocks(rdirect("cint2e_g1", 1, ans),
                     rdirect("cint2e_g1spsp2", 1, ans),
                     rdirect("cint2e_spgsp1", 1, ans),
                     rdirect("cint2e_spgsp1spsp2", 1, ans), n)
    IN  [vj |-> hermi_triu(vj, 1, 2 * n), vk |-> PlusConjT(vk, 2 * n),
         vj_step |-> HermiTriuStep, vk_step |-> PlusConjTStep]

\* _call_rmb_vhf1(mol, dm, key) and _call_giao_vhf1(mol, dm) called with a
\* density of the basis' size
CallVhf1 ==
    \E fn \in {"_call_rmb_vhf1", "_call_giao_vhf1"}, key \in {"giao", "cg"},
       id \in DmIds, ans \in OracleAnswers :
       LET n4c == 2 * mol_nao_2c
           r == IF fn = "_call_rmb_vhf1" THEN _call_rmb_vhf1(n4c, key, FALSE)
                                         ELSE _call_giao_vhf1(n4c, FALSE)
       IN  /\ op.fn = "none"
           /\ fn = "_call_giao_vhf1" => key = "giao"
           /\ op' = [fn |-> fn, key |-> key, dm |-> id, ans |-> ans]
           /\ ret' = [st |-> r.st, err |-> r.err,
                      val |-> IF fn = "_call_rmb_vhf1" THEN rmb_vj_vk(key, ans)
                                                       ELSE giao_vj_vk(ans)]
           /\ trace' = r.ev
           /\ chk' = <<>>
           /\ UNCHANGED <<mol_common_origin, mol_rinv_origin, vindVars, cphfVars, logVars>>

(***************************************************************************)
(* NMR.shielding (dhf.py 232-259), NMR.dia (261-267), NMR.para_ (271-280)  *)
(* and the CPHF solve behind self.solve_mo1.  The solve is the state       *)
(* machine INITIAL -> ITERATING -> CONVERGED | MAX_ITER_REACHED of the     *)
(* design: each iteration applies the induced-potential operator to the    *)
(* trial response and tests the tolerance, and the budget max_cycle ends   *)
(* it.  The response after k iterations is the response number k.          *)
(***************************************************************************)
\* largest iteration budget
MaxCycle == 2
\* calls of NMR.shielding and NMR.para_ in one behaviour
MaxShieldCalls == 2

\* facppm = 1e6/param.LIGHTSPEED**2, in units of 1000/LIGHTSPEED**2
facppm == 1000

\* x*facppm on an array of 3x3 tensors
Scaled(a) == Vec(Len(a), LAMBDA k : Mat(3, 3, LAMBDA b, m : a[k][b][m] * facppm))
\* a sum that drops the diamagnetic term
TensorAdd_para_only(a, b) == a
\* the sum of two arrays of 3x3 tensors
TensorAdd(a, b) ==
    Vec(Len(a), LAMBDA k : Mat(3, 3, LAMBDA i, j : a[k][i][j] + b[k][i][j]))

\* self._scf.make_rdm1(...), self._scf.mo_coeff and self._scf.mo_occ of a
\* converged SCF: a Hermitian density, the negative-energy orbitals empty
scf_dm0 == DM0(1, BasisN4c)
scf_mo_coeff == MoCoeff(1, BasisN4c)
scf_mo_occ == Vec(BasisN4c, LAMBDA i : IF i > BasisN4c \div 2 THEN 1 ELSE 0)
scf_nocc == Len(OccIdx(scf_mo_occ, BasisN4c))

\* the states of the solve
CphfTerminal == {"CONVERGED", "MAX_ITER_REACHED"}

\* the test that ends the iteration: the budget is used up
\* a test that would allow one iteration beyond the budget
BudgetExhausted_off_by_one(iter, budget) == iter > budget
BudgetExhausted(iter, budget) == iter >= budget

\* the state after an iteration that met the tolerance (conv) or did not
AfterIteration(iter, budget, conv) ==
    IF conv THEN "CONVERGED"
    ELSE IF BudgetExhausted(iter, budget) THEN "MAX_ITER_REACHED"
    ELSE "ITERATING"

\* shielding is called: lines 233-236, dump_flags and check_sanity
ShieldingCall ==
    /\ sh_pc \in {"idle", "done", "raised"}
    /\ ncall < MaxShieldCalls
    /\ ncall' = ncall + 1
    /\ \E m \in {<<>>} \cup {<<id>> : id \in Mo10Ids} : sh_mo1' = m
    /\ sh_pc' = "dia"
    /\ cphf_state' = "none"
    /\ cphf_iter' = 0
    /\ nsolve' = 0
    /\ warned' = FALSE
    /\ msc_dia' = <<>>
    /\ sh_ret' = [returned |-> FALSE]
    /\ sh_entry' = "shielding"
    /\ UNCHANGED <<sh_nuc, sh_gauge, sh_mb, max_cycle, self_mo10>>
    /\ UNCHANGED <<logVars, vindVars, molVars>>

\* NMR.para_(mo10=m) called on the object itself, lines 271-276: mol,
\* mo_coeff, mo_occ and shielding_nuc are left to their defaults
ParaCall ==
    /\ sh_pc \in {"idle", "done", "raised"}
    /\ ncall < MaxShieldCalls
    /\ ncall' = ncall + 1
    /\ \E m \in {<<>>} \cup {<<id>> : id \in Mo10Ids} : sh_mo1' = m
    /\ sh_pc' = "para_"
    /\ cphf_state' = "none"
    /\ cphf_iter' = 0
    /\ nsolve' = 0
    /\ warned' = FALSE
    /\ msc_dia' = <<>>
    /\ sh_ret' = [returned |-> FALSE]
    /\ sh_entry' = "para_"
    /\ UNCHANGED <<sh_nuc, sh_gauge, sh_mb, max_cycle, self_mo10>>
    /\ UNCHANGED <<logVars, vindVars, molVars>>

\* line 240: msc_dia = self.dia() * facppm
ShieldingDia ==
    /\ sh_pc = "dia"
    /\ LET r == dia(scf_dm0, BasisN4c, sh_gauge, sh_nuc, sh_mb,
                    mol_common_origin, mol_rinv_origin)
       IN  /\ mol_common_origin' = r.origin
           /\ mol_rinv_origin' = r.rinv
           /\ IF r.st = "ok"
              THEN msc_dia' = Scaled(r.val) /\ sh_pc' = "para_"
              ELSE msc_dia' = <<>> /\ sh_pc' = "raised"
    /\ UNCHANGED <<sh_mo1, sh_nuc, sh_gauge, sh_mb, sh_entry, sh_ret, cphf_state,
                   cphf_iter, max_cycle, warned, self_mo10, nsolve, ncall>>
    /\ UNCHANGED <<logVars, vindVars, op, ret, trace, chk>>

\* a para_ that would take a stored self.mo10 instead of solving again
ParaSolveCall_reuse_stored ==
    /\ sh_pc = "para_"
    /\ sh_mo1 = <<>>
    /\ IF self_mo10 = <<>>
       THEN sh_pc' = "solve" /\ nsolve' = nsolve + 1 /\ cphf_state' = "INITIAL"
       ELSE sh_pc' = "para" /\ nsolve' = nsolve /\ cphf_state' = cphf_state
    /\ cphf_iter' = 0
    /\ UNCHANGED <<sh_mo1, sh_nuc, sh_gauge, sh_mb, sh_entry, msc_dia, sh_ret,
                   max_cycle, warned, self_mo10, ncall>>
    /\ UNCHANGED <<logVars, vindVars, molVars>>

\* lines 277-278: mo10 is None, self.solve_mo1() is called
ParaSolveCall ==
    /\ sh_pc = "para_"
    /\ sh_mo1 = <<>>
    /\ sh_pc' = "solve"
    /\ nsolve' = nsolve + 1
    /\ cphf_state' = "INITIAL"
    /\ cphf_iter' = 0
    /\ UNCHANGED <<sh_mo1, sh_nuc, sh_gauge, sh_mb, sh_entry, msc_dia, sh_ret,
                   max_cycle, warned, self_mo10, ncall>>
    /\ UNCHANGED <<logVars, vindVars, molVars>>

\* line 277: mo10 is given, no solve
ParaGiven ==
    /\ sh_pc = "para_"
    /\ sh_mo1 # <<>>
    /\ sh_pc' = "para"
    /\ UNCHANGED <<sh_mo1, sh_nuc, sh_gauge, sh_mb, sh_entry, msc_dia, sh_ret, cphf_state,
                   cphf_iter, max_cycle, warned, self_mo10, nsolve, ncall>>
    /\ UNCHANGED <<logVars, vindVars, molVars>>

\* the solve starts to iterate
CphfStart ==
    /\ sh_pc = "solve"
    /\ cphf_state = "INITIAL"
    /\ cphf_state' = "ITERATING"
    /\ UNCHANGED <<sh_pc, sh_mo1, sh_nuc, sh_gauge, sh_mb, sh_entry, msc_dia, sh_ret,
                   cphf_iter, max_cycle, warned, self_mo10, nsolve, ncall>>
    /\ UNCHANGED <<logVars, vindVars, molVars>>

\* one iteration: the induced potential of the trial response, the updated
\* response, the test of the tolerance
CphfIterate ==
    /\ sh_pc = "solve"
    /\ cphf_state = "ITERATING"
    /\ \E conv \in BOOLEAN :
          /\ cphf_iter' = cphf_iter + 1
          /\ cphf_state' = AfterIteration(cphf_iter + 1, max_cycle, conv)
          /\ warned' = (cphf_state' = "MAX_ITER_REACHED")
    /\ UNCHANGED <<sh_pc, sh_mo1, sh_nuc, sh_gauge, sh_mb, sh_entry, msc_dia, sh_ret,
                   max_cycle, self_mo10, nsolve, ncall>>
    /\ UNCHANGED <<logVars, vindVars, molVars>>

\* line 278: self.mo10, self.mo_e10 = self.solve_mo1(); line 279
ParaSolveReturn ==
    /\ sh_pc = "solve"
    /\ cphf_state \in CphfTerminal
    /\ self_mo10' = <<cphf_iter>>
    /\ sh_pc' = "para"
    /\ UNCHANGED <<sh_mo1, sh_nuc, sh_gauge, sh_mb, sh_entry, msc_dia, sh_ret, cphf_state,
                   cphf_iter, max_cycle, warned, nsolve, ncall>>
    /\ UNCHANGED <<logVars, vindVars, molVars>>

\* line 280 and lines 242-259: para, the scaling, e11 = msc_para + msc_dia,
\* the report on self.stdout, return e11
ShieldingPara ==
    /\ sh_pc = "para"
    /\ sh_entry = "shielding"
    /\ LET id == IF sh_mo1 = <<>> THEN self_mo10[1] ELSE sh_mo1[1]
           r  == para(Mo10(id, BasisN4c, scf_nocc), scf_mo_coeff, scf_mo_occ,
                      BasisN4c, sh_nuc, mol_common_origin, mol_rinv_origin)
       IN  /\ mol_common_origin' = r.origin
           /\ mol_rinv_origin' = r.rinv
           /\ IF r.st = "ok"
              THEN /\ sh_ret' = [returned |-> TRUE,
                                 e11 |-> TensorAdd(Scaled(r.val.msc_para), msc_dia)]
                   /\ sh_pc' = "done"
              ELSE /\ sh_ret' = [returned |-> FALSE]
                   /\ sh_pc' = "raised"
    /\ UNCHANGED <<sh_mo1, sh_nuc, sh_gauge, sh_mb, sh_entry, msc_dia, cphf_state,
                   cphf_iter, max_cycle, warned, self_mo10, nsolve, ncall>>
    /\ UNCHANGED <<logVars, vindVars, op, ret, trace, chk>>

\* line 280 of a para_ called on the object itself: return para(...)
ParaReturn ==
    /\ sh_pc = "para"
    /\ sh_entry = "para_"
    /\ LET id == IF sh_mo1 = <<>> THEN self_mo10[1] ELSE sh_mo1[1]
           r  == para(Mo10(id, BasisN4c, scf_nocc), scf_mo_coeff, scf_mo_occ,
                      BasisN4c, sh_nuc, mol_common_origin, mol_rinv_origin)
       IN  /\ mol_common_origin' = r.origin
           /\ mol_rinv_origin' = r.rinv
           /\ IF r.st = "ok"
              THEN /\ sh_ret' = [returned |-> TRUE, para |-> r.val]
                   /\ sh_pc' = "done"
              ELSE /\ sh_ret' = [returned |-> FALSE]
                   /\ sh_pc' = "raised"
    /\ UNCHANGED <<sh_mo1, sh_nuc, sh_gauge, sh_mb, sh_entry, msc_dia, cphf_state,
                   cphf_iter, max_cycle, warned, self_mo10, nsolve, ncall>>
    /\ UNCHANGED <<logVars, vindVars, op, ret, trace, chk>>

(***************************************************************************)
(* The logging functions of src/lib/logger.py (145-218) on Logger objects  *)
(* (93-143).  A logger has its own verbose level and its own stream; a     *)
(* call writes lines to the logger's stream, to sys.stdout and to          *)
(* sys.stderr.                                                             *)
(***************************************************************************)
\* the log levels, lines 72-84 and the table of lines 17-26
DEBUG4 == 9
DEBUG3 == 8
DEBUG2 == 7
DEBUG1 == 6
DEBUG == 5
INFO == 4
NOTE == 3
NOTICE == NOTE
WARN == 2
ERROR == 1
QUIET == 0

VerboseLevels == QUIET..DEBUG4
Loggers == {"log1", "log2"}
Streams == {"sys.stdout", "file"}
Messages == {"msg"}

LogFunctions ==
    {"debug4", "debug3", "debug2", "debug1", "debug", "info", "note", "warn",
     "error", "log"}

\* the test `rec.verbose >= LEVEL` of the functions
\* a test that would need a verbose above the level
Emits_above(verbose, level) == verbose > level
Emits(verbose, level) == verbose >= level

\* flush(rec, msg): the line written to rec.stdout
flush(msg) == <<msg>>

\* what a call fn(rec, msg) writes: out to rec.stdout, err to sys.stderr
LogEffect(fn, verbose, msg) ==
    CASE fn = "log" ->
           [out |-> IF verbose > QUIET THEN flush(msg) ELSE <<>>, err |-> <<>>]
      [] fn = "error" ->
           [out |-> IF Emits(verbose, ERROR) THEN flush("Error: " \o msg) ELSE <<>>,
            err |-> <<"Error: " \o msg>>]
      [] fn = "warn" ->
           IF Emits(verbose, WARN)
           THEN [out |-> flush("Warn: " \o msg), err |-> <<"Warn: " \o msg>>]
           ELSE [out |-> <<>>, err |-> <<>>]
      [] fn = "info" ->
           [out |-> IF Emits(verbose, INFO) THEN flush(msg) ELSE <<>>, err |-> <<>>]
      [] fn = "note" ->
           [out |-> IF Emits(verbose, NOTICE) THEN flush(msg) ELSE <<>>, err |-> <<>>]
      [] fn = "debug" ->
           [out |-> IF Emits(verbose, DEBUG) THEN flush(msg) ELSE <<>>, err |-> <<>>]
      [] fn = "debug1" ->
           [out |-> IF Emits(verbose, DEBUG1) THEN flush(msg) ELSE <<>>, err |-> <<>>]
      [] fn = "debug2" ->
           [out |-> IF Emits(verbose, DEBUG2) THEN flush(msg) ELSE <<>>, err |-> <<>>]
      [] fn = "debug3" ->
           [out |-> IF Emits(verbose, DEBUG3) THEN flush(msg) ELSE <<>>, err |-> <<>>]
      [] fn = "debug4" ->
           [out |-> IF Emits(verbose, DEBUG4) THEN flush(msg) ELSE <<>>, err |-> <<>>]

\* stdout(rec, msg), lines 193-196: the lines for rec.stdout and sys.stdout
stdout(verbose, msg) ==
    [out |-> IF Emits(verbose, DEBUG) THEN flush(msg) ELSE <<>>,
     sys |-> <<">>> " \o msg>>]

\* the values TIMER_LEVEL is set to: the default and the 4 of the docstring
TimerLevels == {DEBUG, INFO}
\* a cpu0 or wall0 argument is falsy (None, 0.0) or a time
TimeArgs == BOOLEAN
TimerFunctions ==
    {"timer", "timer_debug1", "Logger.timer", "Logger.timer_debug1"}

\* the line of timer: the times themselves are those of the clock
TimerLine(msg, wall0) ==
    IF wall0
    THEN "    CPU time for " \o msg \o " %9.2f sec, wall time %9.2f sec"
    ELSE "    CPU time for " \o msg \o " %9.2f sec"
\* time.clock(), time.time() or time.clock()
Clocks(wall0) == IF wall0 THEN "cpu1, wall1" ELSE "cpu1"

\* timer(rec, msg, cpu0, wall0), lines 198-210
timer(verbose, level, msg, wall0) ==
    [st  |-> "ok",
     out |-> IF verbose >= level THEN flush(TimerLine(msg, wall0)) ELSE <<>>,
     val |-> Clocks(wall0)]

\* timer_debug1(rec, msg, cpu0, wall0), lines 212-218
timer_debug1(verbose, level, msg, wall0) ==
    IF verbose >= DEBUG1 THEN timer(verbose, level, msg, wall0)
    ELSE [st |-> "ok", out |-> <<>>, val |-> Clocks(wall0)]

\* Logger.timer(msg, cpu0, wall0), lines 130-135: without a cpu0 the two
\* names self._t0, self._w0 are assigned what timer returns, which is one
\* number when there is no wall0
Logger_timer(verbose, level, msg, cpu0, wall0) ==
    LET t == timer(verbose, level, msg, wall0)
    IN  IF cpu0 \/ wall0 THEN t
        ELSE [st |-> "TypeError: unpack", out |-> t.out, val |-> "none"]

\* Logger.timer_debug1(msg, cpu0, wall0), lines 137-143
Logger_timer_debug1(verbose, level, msg, cpu0, wall0) ==
    IF verbose >= DEBUG1 THEN Logger_timer(verbose, level, msg, cpu0, wall0)
    ELSE [st |-> "ok", out |-> <<>>, val |-> Clocks(wall0)]

TimerEffect(fn, verbose, level, msg, cpu0, wall0) ==
    CASE fn = "timer" -> timer(verbose, level, msg, wall0)
      [] fn = "timer_debug1" -> timer_debug1(verbose, level, msg, wall0)
      [] fn = "Logger.timer" -> Logger_timer(verbose, level, msg, cpu0, wall0)
      [] fn = "Logger.timer_debug1" ->
           Logger_timer_debug1(verbose, level, msg, cpu0, wall0)

NoLogCall ==
    /\ lg_call = [fn |-> "none"]
    /\ lg_written = [s \in Streams |-> <<>>]
    /\ lg_stderr = <<>>

\* rec.fn(msg), which is fn(rec, msg) (lines 100-128)
LogCallFn ==
    \E rec \in Loggers, fn \in LogFunctions, msg \in Messages :
       LET e == LogEffect(fn, lg_verbose[rec], msg)
       IN  /\ lg_call.fn = "none"
           /\ lg_call' = [fn |-> fn, rec |-> rec, msg |-> msg]
           /\ lg_written' = [s \in Streams |->
                                IF s = lg_stdout[rec] THEN e.out ELSE <<>>]
           /\ lg_stderr' = e.err
           /\ UNCHANGED <<lg_verbose, lg_stdout, TIMER_LEVEL, vindVars, molVars, cphfVars>>

\* flush(rec, msg) called directly: the line goes to rec.stdout whatever
\* rec.verbose is
LogFlushFn ==
    \E rec \in Loggers, msg \in Messages :
       /\ lg_call.fn = "none"
       /\ lg_call' = [fn |-> "flush", rec |-> rec, msg |-> msg]
       /\ lg_written' = [s \in Streams |->
                            IF s = lg_stdout[rec] THEN flush(msg) ELSE <<>>]
       /\ lg_stderr' = <<>>
       /\ UNCHANGED <<lg_verbose, lg_stdout, TIMER_LEVEL, vindVars, molVars, cphfVars>>

\* stdout(rec, msg)
LogStdoutFn ==
    \E rec \in Loggers, msg \in Messages :
       LET e == stdout(lg_verbose[rec], msg)
       IN  /\ lg_call.fn = "none"
           /\ lg_call' = [fn |-> "stdout", rec |-> rec, msg |-> msg]
           /\ lg_written' = [s \in Streams |->
                                (IF s = lg_stdout[rec] THEN e.out ELSE <<>>)
                                \o (IF s = "sys.stdout" THEN e.sys ELSE <<>>)]
           /\ lg_stderr' = <<>>
           /\ UNCHANGED <<lg_verbose, lg_stdout, TIMER_LEVEL, vindVars, molVars, cphfVars>>

\* timer(rec, msg, cpu0, wall0), timer_debug1(rec, msg, cpu0, wall0),
\* rec.timer(msg, cpu0, wall0) and rec.timer_debug1(msg, cpu0, wall0); the
\* functions need a cpu0 that is a number
LogTimerFn ==
    \E rec \in Loggers, fn \in TimerFunctions, msg \in Messages,
       cpu0 \in TimeArgs, wall0 \in TimeArgs :
       LET e == TimerEffect(fn, lg_verbose[rec], TIMER_LEVEL, msg, cpu0, wall0)
       IN  /\ lg_call.fn = "none"
           /\ lg_call' = [fn |-> fn, rec |-> rec, msg |-> msg, cpu0 |-> cpu0,
                          wall0 |-> wall0, st |-> e.st, val |-> e.val]
           /\ lg_written' = [s \in Streams |->
                                IF s = lg_stdout[rec] THEN e.out ELSE <<>>]
           /\ lg_stderr' = <<>>
           /\ UNCHANGED <<lg_verbose, lg_stdout, TIMER_LEVEL, vindVars, molVars, cphfVars>>

\* lib.logger.TIMER_LEVEL = v
SetTimerLevel ==
    \E v \in TimerLevels :
       /\ lg_call.fn = "none"
       /\ v # TIMER_LEVEL
       /\ TIMER_LEVEL' = v
       /\ UNCHANGED <<lg_verbose, lg_stdout, lg_call, lg_written, lg_stderr,
                      vindVars, molVars, cphfVars>>

\* rec.verbose = v
SetVerbose ==
    \E rec \in Loggers, v \in VerboseLevels :
       /\ lg_call.fn = "none"
       /\ v # lg_verbose[rec]
       /\ lg_verbose' = [lg_verbose EXCEPT ![rec] = v]
       /\ UNCHANGED <<lg_stdout, lg_call, lg_written, lg_stderr, TIMER_LEVEL,
                      vindVars, molVars, cphfVars>>

\* rec.stdout = s
SetStdout ==
    \E rec \in Loggers, s \in Streams :
       /\ lg_call.fn = "none"
       /\ s # lg_stdout[rec]
       /\ lg_stdout' = [lg_stdout EXCEPT ![rec] = s]
       /\ UNCHANGED <<lg_verbose, lg_call, lg_written, lg_stderr, TIMER_LEVEL,
                      vindVars, molVars, cphfVars>>

\* the lines of the last call have been looked at
LogDiscard ==
    /\ lg_call.fn # "none"
    /\ lg_call' = [fn |-> "none"]
    /\ lg_written' = [s \in Streams |-> <<>>]
    /\ lg_stderr' = <<>>
    /\ UNCHANGED <<lg_verbose, lg_stdout, TIMER_LEVEL, vindVars, molVars, cphfVars>>

(***************************************************************************)
(* Initial states and specifications.                                      *)
(***************************************************************************)
CphfIdle ==
    /\ sh_pc = "idle"
    /\ sh_mo1 = <<>>
    /\ sh_nuc = [none |-> FALSE, ids |-> <<1>>]
    /\ sh_gauge = None
    /\ sh_mb = "RMB"
    /\ msc_dia = <<>>
    /\ sh_ret = [returned |-> FALSE]
    /\ cphf_state = "none"
    /\ cphf_iter = 0
    /\ max_cycle = 1
    /\ warned = FALSE
    /\ self_mo10 = <<>>
    /\ nsolve = 0
    /\ ncall = 0
    /\ sh_entry = "none"

\* the loggers as Logger() constructs them: verbose NOTE, no call made yet
LogIdle ==
    /\ lg_verbose = [rec \in Loggers |-> NOTE]
    /\ lg_stdout = [rec \in Loggers |-> "sys.stdout"]
    /\ TIMER_LEVEL = DEBUG
    /\ NoLogCall

MolInit ==
    /\ mol_common_origin = <<0>>
    /\ mol_rinv_origin = <<0>>
    /\ op = [fn |-> "none"]
    /\ ret = [st |-> "none", err |-> "", val |-> <<>>]
    /\ trace = <<>>
    /\ chk = <<>>

VindInitCommon ==
    /\ direct_scf \in BOOLEAN
    /\ pc = [t \in Threads |-> "idle"]
    /\ bak = [t \in Threads |-> FALSE]
    /\ dm1 = [t \in Threads |-> 0]
    /\ orig = [t \in Threads |-> direct_scf]
    /\ base = direct_scf
    /\ ncalls = [t \in Threads |-> 0]
    /\ hermi = [t \in Threads |-> 0]
    /\ ninv = [t \in Threads |-> 0]

\* one thread: the single-threaded control flow of the module
InitVind == VindInitCommon /\ nthreads = 1 /\ MolInit /\ CphfIdle /\ LogIdle

\* several threads calling _vind on the same SCF object
InitVindPar == VindInitCommon /\ nthreads = MaxThreads /\ MolInit /\ CphfIdle /\ LogIdle

NextVind == \E t \in Threads : VindStep(t)

SpecVind == InitVind /\ [][NextVind]_vars

SpecVindPar == InitVindPar /\ [][NextVind]_vars

VindIdle ==
    /\ direct_scf = TRUE
    /\ nthreads = 1
    /\ pc = [t \in Threads |-> "idle"]
    /\ bak = [t \in Threads |-> FALSE]
    /\ dm1 = [t \in Threads |-> 0]
    /\ orig = [t \in Threads |-> TRUE]
    /\ base = TRUE
    /\ ncalls = [t \in Threads |-> 0]
    /\ hermi = [t \in Threads |-> 0]
    /\ ninv = [t \in Threads |-> 0]

InitMol == MolInit /\ VindIdle /\ CphfIdle /\ LogIdle

NextMol ==
    \/ CallMakeH10
    \/ CallNMRMakeH10
    \/ CallMakeS10
    \/ CallVhf1
    \/ CallPara
    \/ CallDia
    \/ Discard

SpecMol == InitMol /\ [][NextMol]_vars

\* the NMR object before its first shielding call: the nuclei, the gauge
\* origin, the balance scheme and the iteration budget it was given
InitCphf ==
    /\ MolInit
    /\ LogIdle
    /\ VindIdle
    /\ sh_pc = "idle"
    /\ sh_mo1 = <<>>
    /\ sh_nuc \in {[none |-> FALSE, ids |-> l] : l \in {<<>>, <<1>>, <<mol_natm, 1>>, <<1, 1>>}}
    /\ sh_gauge \in {None, <<1>>}
    /\ sh_mb \in Balances
    /\ msc_dia = <<>>
    /\ sh_ret = [returned |-> FALSE]
    /\ cphf_state = "none"
    /\ cphf_iter = 0
    /\ max_cycle \in 1..MaxCycle
    /\ warned = FALSE
    /\ self_mo10 = <<>>
    /\ nsolve = 0
    /\ ncall = 0
    /\ sh_entry = "none"

NextCphf ==
    \/ ShieldingCall
    \/ ParaCall
    \/ ShieldingDia
    \/ ParaSolveCall
    \/ ParaGiven
    \/ CphfStart
    \/ CphfIterate
    \/ ParaSolveReturn
    \/ ShieldingPara
    \/ ParaReturn

\* a solve that has been called runs: it starts to iterate, and it makes its
\* next iteration
SpecCphf ==
    InitCphf /\ [][NextCphf]_vars /\ WF_vars(CphfStart) /\ WF_vars(CphfIterate)

\* Logger(stdout, verbose) for every logger: any stream, any verbose level
InitLog ==
    /\ MolInit
    /\ VindIdle
    /\ CphfIdle
    /\ lg_verbose \in [Loggers -> VerboseLevels]
    /\ lg_stdout \in [Loggers -> Streams]
    /\ TIMER_LEVEL = DEBUG
    /\ NoLogCall

NextLog ==
    \/ LogCallFn
    \/ LogFlushFn
    \/ LogStdoutFn
    \/ LogTimerFn
    \/ SetTimerLevel
    \/ SetVerbose
    \/ SetStdout
    \/ LogDiscard

SpecLog == InitLog /\ [][NextLog]_vars

(***************************************************************************)
(* Properties of NMR._vind.                                                *)
(***************************************************************************)
Ended(t) == pc[t] \in {"returned", "raised"}

\* C1: when an invocation of NMR._vind has ended, by a normal return or by
\* an exception of get_veff or of a later step, direct_scf has the value it
\* had when the invocation started.
C1_FlagRestoredOnEveryExit ==
    \A t \in Threads : Ended(t) => direct_scf = orig[t]

\* C2: an invocation of NMR._vind calls get_veff once, with hermi=1, and
\* direct_scf is False while that call runs, whatever it was before: at most
\* one call is ever made, exactly one has been made at the normal return,
\* the flag is False from the write of line 319 to the restore of line 322,
\* and before that write and after that restore it has the value it had
\* when the invocation started.
C2_OneVeffCallWithFlagDisabled ==
    \A t \in Threads :
        /\ ncalls[t] <= 1
        /\ pc[t] = "in_veff" => ncalls[t] = 1 /\ hermi[t] = 1
        /\ pc[t] = "returned" => ncalls[t] = 1 /\ hermi[t] = 1
        /\ pc[t] \in {"call", "in_veff", "restore"} => direct_scf = FALSE
        /\ pc[t] \in {"save", "disable", "ao2mo", "returned"} => direct_scf = orig[t]

\* the call of get_veff is running in an invocation that found the flag set
C2_Witness ==
    pc[1] = "in_veff" /\ orig[1] = TRUE /\ direct_scf = FALSE /\ ninv[1] = 1

\* C3: with two evaluations interleaved on one SCF object, no get_veff call
\* runs with direct_scf enabled, and when all of them have returned
\* direct_scf has the value it had before the first of them started.
C3_ToggleIsCriticalSection ==
    /\ \A t \in Threads : pc[t] = "in_veff" => direct_scf = FALSE
    /\ (\A t \in 1..nthreads : pc[t] = "returned") => direct_scf = base

(***************************************************************************)
(* The operator builders and the assembler (SpecMol).                      *)
(***************************************************************************)
BuildCall == op.fn \in {"make_h10", "NMR.make_h10"}
AssemblerCall == op.fn \in {"dia", "para"}
HasEvent(kind) == \E k \in 1..Len(trace) : trace[k].kind = kind

\* C4: a build of h1 with with_gaunt set, for either balance scheme and
\* either gauge setting, ends by raising and returns no h1; in NMR.make_h10
\* nothing is stored in the checkpoint.  On a density of the basis' size the
\* error is the one raised by the `if with_gaunt:` statement.
C4_GauntRequestFails ==
    (BuildCall /\ op.with_gaunt) =>
        /\ ret.st = "raise"
        /\ ret.val = Zeros
        /\ chk = <<>>
        /\ op.n4c = BasisN4c => ret.err = GauntError

C4_Witness ==
    /\ op.fn = "NMR.make_h10"
    /\ op.with_gaunt
    /\ op.mb = "RMB"
    /\ op.gauge_orig = None
    /\ op.n4c = BasisN4c
    /\ ret.st = "raise"
    /\ ret.err = GauntError
    /\ chk = <<>>

OutOfRangeRequested ==
    /\ AssemblerCall
    /\ ~op.shielding_nuc.none
    /\ \E k \in 1..Len(op.shielding_nuc.ids) :
          op.shielding_nuc.ids[k] \notin 1..mol_natm

\* C7: dia and para fail with DimensionMismatch, and return no tensor, when
\* a requested nucleus index is not one of 1..natm.
C7_OutOfRangeNucleusFails ==
    OutOfRangeRequested => ret.st = "raise" /\ ret.err = "DimensionMismatch"

\* C8: a build of h1 on a density whose dimension is not 2*nao_2c raises,
\* and raises before any two-electron contraction has been started.
C8_DimensionCheckedBeforeContraction ==
    (BuildCall /\ op.n4c # 2 * mol_nao_2c) =>
        ret.st = "raise" /\ ~HasEvent("contract")

\* the common origin dia computes with
DiaOrigin == SetCommonOrigin(op.gauge_orig, op.common0)

\* some element of a tensor dia returned had an imaginary part before
\* numpy.real was taken
DiaImaginaryRemainder ==
    /\ op.fn = "dia"
    /\ ret.st = "ok"
    /\ LET ids == NucOrAll(op.shielding_nuc)
       IN  \E k \in 1..Len(ids), i \in 1..9 :
              CImag(dia_trace(DM0(op.dm0, BasisN4c), BasisN4c, op.mb,
                              op.gauge_orig, DiaOrigin,
                              atom_coord(ids[k] - 1))[i]) # 0

\* some element of a tensor para returned had an imaginary part before .real
\* was taken
ParaImaginaryRemainder ==
    /\ op.fn = "para"
    /\ ret.st = "ok"
    /\ LET ids  == NucOrAll(op.shielding_nuc)
           nocc == Len(OccIdx(op.mo_occ, BasisN4c))
           mo10 == Mo10(op.mo10, BasisN4c, nocc)
       IN  \E k \in 1..Len(ids), b \in 1..3, m \in 1..3, i \in 1..BasisN4c :
              CImag(para_einsum(mo10[b],
                        _mat_ao2mo(para_h01(MZero(BasisN4c), m, BasisN4c \div 2,
                                            op.common0, atom_coord(ids[k] - 1)),
                                   MoCoeff(op.mo_coeff, BasisN4c), op.mo_occ,
                                   BasisN4c),
                        BasisN4c, nocc)[i]) # 0

\* C9: when an element of an assembled tensor has a non-zero imaginary part
\* before the real part is taken, dia and para log it.
C9_ImaginaryRemainderIsLogged ==
    (DiaImaginaryRemainder \/ ParaImaginaryRemainder) => HasEvent("log")

EmptyRequest ==
    /\ AssemblerCall
    /\ ~op.shielding_nuc.none
    /\ op.shielding_nuc.ids = <<>>

EmptyResult ==
    /\ ret.st = "ok"
    /\ op.fn = "dia" => ret.val = <<>>
    /\ op.fn = "para" =>
          /\ ret.val.msc_para = <<>>
          /\ ret.val.para_pos = <<>>
          /\ ret.val.para_neg = <<>>
          /\ ret.val.para_occ = <<>>

\* C10 as stated: an empty shielding_nuc list gives the empty result with no
\* integral call and leaves both origins of mol as they were.
C10_EmptyRequestLeavesOrigins ==
    EmptyRequest =>
        /\ EmptyResult
        /\ ~HasEvent("intor")
        /\ mol_common_origin = op.common0
        /\ mol_rinv_origin = op.rinv0

\* C10: an empty shielding_nuc list gives the empty result with no integral
\* call and no set_rinv_origin_; the rinv origin of mol is as it was, and the
\* common origin is as it was except that dia with a gauge origin has set it
\* to that origin.
C10_EmptyRequestIsEmpty ==
    EmptyRequest =>
        /\ EmptyResult
        /\ ~HasEvent("intor")
        /\ mol_rinv_origin = op.rinv0
        /\ \A k \in 1..Len(trace) : trace[k] # OriginCall("set_rinv_origin_")
        /\ mol_common_origin =
              (IF op.fn = "dia" THEN DiaOrigin ELSE op.common0)

C10_Witness ==
    /\ EmptyRequest
    /\ op.fn = "dia"
    /\ op.gauge_orig = <<1>>
    /\ op.common0 = <<0>>
    /\ ret.st = "ok"
    /\ ret.val = <<>>
    /\ mol_common_origin = <<1>>

(***************************************************************************)
(* NMR.shielding and the CPHF solve (SpecCphf).                            *)
(***************************************************************************)
CphfStates == {"none", "INITIAL", "ITERATING"} \cup CphfTerminal

CphfStepOK ==
    /\ cphf_state = "INITIAL" => cphf_state' \in {"INITIAL", "ITERATING"}
    /\ cphf_state = "ITERATING" => cphf_state' \in {"ITERATING"} \cup CphfTerminal
    /\ cphf_state' = "INITIAL" => cphf_state \in {"INITIAL", "none"}
    /\ cphf_state' \in CphfTerminal =>
          cphf_state = "ITERATING" \/ cphf_state' = cphf_state

\* C5: a solve started from INITIAL moves to ITERATING and from there to
\* CONVERGED or MAX_ITER_REACHED within max_cycle iterations, whether or not
\* an iteration meets the tolerance; it has no other state, and INITIAL is
\* entered only when a solve starts.
C5_SolveTerminates ==
    /\ [](/\ cphf_state \in CphfStates
          /\ cphf_iter <= max_cycle
          /\ cphf_state = "MAX_ITER_REACHED" => cphf_iter = max_cycle)
    /\ [][CphfStepOK]_vars
    /\ (cphf_state = "INITIAL") ~> (cphf_state \in CphfTerminal)

C5_Witness ==
    /\ cphf_state = "MAX_ITER_REACHED"
    /\ max_cycle = MaxCycle
    /\ cphf_iter = MaxCycle
    /\ sh_pc = "solve"

\* C6: when the solve ends in MAX_ITER_REACHED, shielding still returns the
\* tensor, and the value it returns carries the status of the solve.
C6_ConvergenceFailureReachesCaller ==
    (sh_pc = "done" /\ sh_entry = "shielding" /\ cphf_state = "MAX_ITER_REACHED") =>
        /\ sh_ret.returned
        /\ "status" \in DOMAIN sh_ret
(***************************************************************************)
(* The assembler called again (SpecMol).                                   *)
(***************************************************************************)
\* the arrays the caller hands to dia and para
InputArrays == {"dm0", "mo10", "mo_coeff", "mo_occ"}

\* the outcome of the dia call of op on a mol whose origins are common, rinv
DiaOn(common, rinv) ==
    dia(DM0(op.dm0, BasisN4c), BasisN4c, op.gauge_orig, op.shielding_nuc,
        op.mb, common, rinv)

\* the outcome of the para call of op on a mol whose origins are common, rinv
ParaOn(common, rinv) ==
    para(Mo10(op.mo10, BasisN4c, Len(OccIdx(op.mo_occ, BasisN4c))),
         MoCoeff(op.mo_coeff, BasisN4c), op.mo_occ, BasisN4c,
         op.shielding_nuc, common, rinv)

\* C11: whatever origins the calls made before have left on mol, a dia or
\* para call returns what the same call returns on a mol whose origins were
\* never set, so two calls with the same arguments return the same tensors;
\* and the only arrays dia and para assign into are their own (t11, h11,
\* h01), never dm0, mo10, mo_coeff or mo_occ.
C11_SameArgumentsSameTensors ==
    /\ op.fn = "dia" =>
          LET r == DiaOn(<<0>>, <<0>>)
          IN  ret.st = r.st /\ ret.val = r.val
    /\ op.fn = "para" =>
          LET r == ParaOn(<<0>>, <<0>>)
          IN  ret.st = r.st /\ ret.val = r.val
    /\ AssemblerCall =>
          \A k \in 1..Len(trace) :
             trace[k].kind = "write" => trace[k].name \notin InputArrays

C11_Witness ==
    /\ op.fn = "dia"
    /\ op.gauge_orig = None
    /\ op.mb = "RMB"
    /\ op.shielding_nuc.none
    /\ op.common0 # <<0>>
    /\ op.rinv0 # <<0>>
    /\ ret.st = "ok"
    /\ Len(ret.val) = mol_natm
    /\ HasEvent("write")

\* line 72 for nucleus number k of the para call of op: the vector p of the
\* directions b, m
ParaP(k, b, m) ==
    LET nuc  == NucOrAll(op.shielding_nuc)
        nocc == Len(OccIdx(op.mo_occ, BasisN4c))
        h01m == para_h01(MZero(BasisN4c), m, BasisN4c \div 2, op.common0,
                         atom_coord(nuc[k] - 1))
        hmo  == _mat_ao2mo(h01m, MoCoeff(op.mo_coeff, BasisN4c), op.mo_occ,
                           BasisN4c)
    IN  para_p(Mo10(op.mo10, BasisN4c, nocc)[b], hmo, BasisN4c, nocc)

\* the orbitals that are neither negative-energy ones nor occupied
PositiveVirtual(i) == i > BasisN4c \div 2 /\ op.mo_occ[i] = 0

\* C12: for every nucleus and pair of directions para_pos + para_neg +
\* para_occ is msc_para, the sum of p over all orbitals, and para_pos is the
\* sum of p over the orbitals that are neither negative-energy nor occupied,
\* for every occupation vector.
C12_ParaPartition ==
    (op.fn = "para" /\ ret.st = "ok") =>
        \A k \in 1..Len(ret.val.msc_para), b \in 1..3, m \in 1..3 :
           LET p == ParaP(k, b, m)
           IN  /\ ret.val.msc_para[k][b][m] = ISum(p, BasisN4c)
               /\ ret.val.para_pos[k][b][m] + ret.val.para_neg[k][b][m]
                    + ret.val.para_occ[k][b][m] = ret.val.msc_para[k][b][m]
               /\ ret.val.para_pos[k][b][m] =
                    ISum(Vec(BasisN4c, LAMBDA i :
                            IF PositiveVirtual(i) THEN p[i] ELSE 0), BasisN4c)

Vhf1Call == op.fn \in {"_call_rmb_vhf1", "_call_giao_vhf1"}

\* C13: for a Hermitian density and every answer of the oracle, the vj and
\* the vk that _call_rmb_vhf1 and _call_giao_vhf1 return are Hermitian, and
\* each of them was finished by adding its conjugate transpose.
C13_VjVkHermitian ==
    (Vhf1Call /\ IsHermitian(DM0(op.dm, BasisN4c), BasisN4c)) =>
        /\ IsHermitian(ret.val.vj, BasisN4c)
        /\ IsHermitian(ret.val.vk, BasisN4c)
        /\ ret.val.vj_step = PlusConjTStep
        /\ ret.val.vk_step = PlusConjTStep

\* h1 as make_h10rkb alone builds it: the one-electron integrals in the
\* large-small and small-large quadrants
RkbOnly ==
    make_h10rkb(op.n4c, op.gauge_orig, op.with_gaunt, op.common0).val

\* C14: a build of h1 with the RKB balance, by make_h10 or NMR.make_h10 and
\* with or without a gauge origin, calls no two-electron contraction, and
\* the h1 it returns is the one of make_h10rkb, with no GIAO term added.
C14_RkbBuildHasNoContraction ==
    (BuildCall /\ op.mb # "RMB") =>
        /\ ~HasEvent("contract")
        /\ ret.st = "ok" => ret.val = RkbOnly

\* the GIAO term make_h10giao builds for the call
GiaoTerm ==
    make_h10giao(op.n4c, op.with_gaunt, op.rejects, op.common0,
                 op.giao_vanish)

ContractEvents == SelectSeq(trace, LAMBDA e : e.kind = "contract")

\* C14 (amended): a build of h1 with the RKB balance and a fixed gauge
\* origin calls no two-electron contraction and returns the h1 of
\* make_h10rkb, whose large-large and small-small quadrants are empty; with
\* no gauge origin a build that make_h10rkb did not fail goes on to
\* make_h10giao, whose contraction _call_giao_vhf1 is the only one called,
\* and a successful build returns the h1 of make_h10rkb plus the GIAO term.
C14_RkbContractsOnlyForGiao ==
    (BuildCall /\ op.mb # "RMB") =>
        /\ op.gauge_orig # None =>
              /\ ~HasEvent("contract")
              /\ ret.st = "ok" =>
                    /\ ret.val = RkbOnly
                    /\ ret.val.LL = {} /\ ret.val.SS = {}
        /\ op.gauge_orig = None =>
              /\ ContractEvents \in
                    {<<>>, SelectSeq(GiaoTerm.ev, LAMBDA e : e.kind = "contract")}
              /\ ret.st = "ok" =>
                    /\ ret.val = MatAdd(RkbOnly, GiaoTerm.val)
                    /\ ContractEvents # <<>>

C14_Witness ==
    /\ op.fn = "make_h10"
    /\ op.mb = "RKB"
    /\ op.gauge_orig # None
    /\ op.n4c = BasisN4c
    /\ ret.st = "ok"
    /\ HasEvent("intor")

\* the response shielding computes with: the one supplied, or the solved one
ShieldingMo10 == IF sh_mo1 = <<>> THEN self_mo10[1] ELSE sh_mo1[1]

\* the diamagnetic tensor and the total paramagnetic tensor of one nucleus
DiaOfNucleus(n) ==
    dia(scf_dm0, BasisN4c, sh_gauge, [none |-> FALSE, ids |-> <<n>>], sh_mb,
        <<0>>, <<0>>).val[1]
ParaOfNucleus(n) ==
    para(Mo10(ShieldingMo10, BasisN4c, scf_nocc), scf_mo_coeff, scf_mo_occ,
         BasisN4c, [none |-> FALSE, ids |-> <<n>>], <<0>>, <<0>>).val.msc_para[1]

\* C15: shielding returns one 3x3 tensor for each entry of shielding_nuc, in
\* the order of the entries, and the tensor of an entry is facppm times the
\* sum of the diamagnetic and the total paramagnetic tensor of that nucleus.
C15_ShieldingIsDiaPlusPara ==
    (sh_ret.returned /\ sh_entry = "shielding") =>
        /\ Len(sh_ret.e11) = Len(sh_nuc.ids)
        /\ \A k \in 1..Len(sh_nuc.ids) : \A i, j \in 1..3 :
              sh_ret.e11[k][i][j] =
                  facppm * (DiaOfNucleus(sh_nuc.ids[k])[i][j]
                            + ParaOfNucleus(sh_nuc.ids[k])[i][j])

C15_Witness ==
    /\ sh_ret.returned
    /\ sh_entry = "shielding"
    /\ sh_pc = "done"
    /\ sh_nuc.ids = <<mol_natm, 1>>
    /\ sh_ret.e11[1] # sh_ret.e11[2]
    /\ \E i, j \in 1..3 : msc_dia[1][i][j] # 0
    /\ ncall = 2

\* the level of each logging function in the table of the module docstring
DocumentedLevel(fn) ==
    CASE fn = "debug4" -> 9
      [] fn = "debug3" -> 8
      [] fn = "debug2" -> 7
      [] fn = "debug1" -> 6
      [] fn = "debug"  -> 5
      [] fn = "info"   -> 4
      [] fn = "note"   -> 3
      [] fn = "warn"   -> 2
      [] fn = "error"  -> 1

LeveledFunctions == LogFunctions \ {"log"}

\* the line a function makes of the message
LogLine(fn, msg) ==
    CASE fn = "error" -> "Error: " \o msg
      [] fn = "warn"  -> "Warn: " \o msg
      [] OTHER        -> msg

\* C16: a call of debug4..debug, info, note, warn or error writes its
\* message to the stream of its own logger when that logger's verbose is at
\* least the documented level of the function, and writes nothing to any
\* stream otherwise; what it writes is fixed by the verbose and the stream
\* of its own logger, whatever the other loggers were set to.
C16_WritesIffVerboseAtLeastLevel ==
    lg_call.fn \in LeveledFunctions =>
        LET rec == lg_call.rec
            shown == lg_verbose[rec] >= DocumentedLevel(lg_call.fn)
        IN  lg_written =
               [s \in Streams |->
                   IF s = lg_stdout[rec] /\ shown
                   THEN <<LogLine(lg_call.fn, lg_call.msg)>> ELSE <<>>]

C16_Witness ==
    /\ lg_call.fn = "info"
    /\ lg_verbose[lg_call.rec] = INFO
    /\ lg_written[lg_stdout[lg_call.rec]] = <<"msg">>
    /\ \E other \in Loggers \ {lg_call.rec} :
          /\ lg_verbose[other] = QUIET
          /\ lg_stdout[other] # lg_stdout[lg_call.rec]

\* C17: a call of error or warn writes its message to sys.stderr exactly
\* when it writes it to the stream of its logger, that is when the logger's
\* verbose is at least the level of the function; a suppressed message is
\* not written to sys.stderr.
C17_StderrExactlyWhenShown ==
    lg_call.fn \in {"error", "warn"} =>
        LET rec == lg_call.rec
            shown == lg_verbose[rec] >= DocumentedLevel(lg_call.fn)
        IN  /\ (lg_stderr # <<>>) <=> (lg_written[lg_stdout[rec]] # <<>>)
            /\ shown => lg_stderr = <<LogLine(lg_call.fn, lg_call.msg)>>
            /\ ~shown => lg_stderr = <<>>

\* h1 as the builder of the balance scheme returns it, before any GIAO term
BuilderH1 ==
    IF op.mb = "RMB"
    THEN make_h10rmb(op.n4c, op.gauge_orig, op.with_gaunt, op.rejects, op.common0).val
    ELSE make_h10rkb(op.n4c, op.gauge_orig, op.with_gaunt, op.common0).val

\* the calls on the checkpoint file, in order
ChkEvents ==
    SelectSeq(trace, LAMBDA e : e.kind \in {"chkfile.dump", "chkfile.load"})

\* C18 (as stated): a successful NMR.make_h10 makes two stores on the
\* checkpoint and no other call on it: first 'nmr/h1' with h1 as the
\* builder returned it, then 'nmr/h1giao' with the h1 it returns; the two
\* stored values are equal exactly when a gauge origin is set.
C18_TwoCheckpointStoresInOrder ==
    (op.fn = "NMR.make_h10" /\ ret.st = "ok") =>
        /\ Len(chk) = 2
        /\ chk[1].key = "nmr/h1" /\ chk[1].val = BuilderH1
        /\ chk[2].key = "nmr/h1giao" /\ chk[2].val = ret.val
        /\ (chk[1].val = chk[2].val) <=> (op.gauge_orig # None)
        /\ ChkEvents = <<ChkDump("nmr/h1"), ChkDump("nmr/h1giao")>>

\* C18 (amended): a successful NMR.make_h10 makes two stores on the
\* checkpoint and no other call on it: first 'nmr/h1' with h1 as the
\* builder returned it, then 'nmr/h1giao' with the h1 it returns.  With a
\* gauge origin the two stored values are equal; with none the second is
\* the first plus the GIAO term, and the two are equal exactly when that
\* term is the zero matrix.
C18_SecondStoreIsFirstPlusGiao ==
    (op.fn = "NMR.make_h10" /\ ret.st = "ok") =>
        /\ Len(chk) = 2
        /\ chk[1].key = "nmr/h1" /\ chk[1].val = BuilderH1
        /\ chk[2].key = "nmr/h1giao" /\ chk[2].val = ret.val
        /\ op.gauge_orig # None => chk[2].val = chk[1].val
        /\ op.gauge_orig = None =>
              /\ chk[2].val = MatAdd(chk[1].val, GiaoTerm.val)
              /\ (chk[1].val = chk[2].val) <=> (GiaoTerm.val = Zeros)
        /\ ChkEvents = <<ChkDump("nmr/h1"), ChkDump("nmr/h1giao")>>

C18_Witness ==
    /\ op.fn = "NMR.make_h10"
    /\ ret.st = "ok"
    /\ op.gauge_orig = None
    /\ Len(chk) = 2
    /\ chk[1].val # chk[2].val
    /\ chk[2].val = MatAdd(chk[1].val, GiaoTerm.val)
    /\ ~op.giao_vanish

\* where the current shielding call stands with its solve
SolveOnceAfterDia ==
    sh_entry = "shielding" =>
        /\ sh_pc = "dia" => nsolve = 0 /\ cphf_state = "none"
        /\ (sh_pc \in {"para", "done"} /\ sh_mo1 = <<>>) =>
              /\ nsolve = 1
              /\ cphf_state \in CphfTerminal
              /\ self_mo10 = <<cphf_iter>>
        /\ sh_mo1 # <<>> => nsolve = 0 /\ cphf_state = "none"

\* C19: a shielding call without mo1 calls solve_mo1 once, after the
\* diamagnetic term, and keeps the result in self.mo10 and self.mo_e10, also
\* when an earlier call has stored one; a call with mo1 never calls
\* solve_mo1 and leaves self.mo10 and self.mo_e10 as they were.
C19_SolveOncePerCallWithoutMo1 ==
    /\ []SolveOnceAfterDia
    /\ [][(sh_entry' = "shielding" /\ sh_mo1' # <<>>) => self_mo10' = self_mo10]_vars

C19_Witness ==
    /\ ncall = 2
    /\ sh_entry = "shielding"
    /\ sh_mo1 = <<>>
    /\ sh_pc = "done"
    /\ nsolve = 1
    /\ self_mo10 # <<>>
    /\ sh_ret.returned

====
